---- MODULE Spec2Model ----
(***************************************************************************)
(* A model of the Bencode value engine of bencedit (src/src/benc.rs).      *)
(*                                                                         *)
(* The decoder `load` is modelled as the state machine it is: one action   *)
(* per arm of `match state` (one iteration of the `while` loop, the chunk  *)
(* reload at the top of the iteration included), one action for the        *)
(* file-size check before the loop and one for the finalisation after it.  *)
(* Bytes are numbers 0..255, strings are sequences of bytes.               *)
(***************************************************************************)
EXTENDS Integers, Sequences, FiniteSets, TLC

(***************************************************************************)
(* Program constants                                                       *)
(***************************************************************************)
MAX_INT_BUF == 32

CHUNK_SIZE == 2048

\* impl Into<u8> for Token
Token == [Dict |-> 100, Int |-> 105, List |-> 108, Colon |-> 58, End |-> 101]

\* the set of bytes TryFrom<u8> for Token maps to Ok(_)
IsToken(c) == c \in {Token.Dict, Token.Int, Token.List, Token.Colon, Token.End}

\* const CHARS in State::Int: '0'..'9' and '-'
Digits == 48..57

CHARS == Digits \cup {45}

(***************************************************************************)
(* Bounds of the model                                                     *)
(***************************************************************************)
\* every byte string of at most MaxLen bytes over Alphabet is an input
MaxLen == 4

\* the small chunk size that makes an input span several chunks
SmallChunk == 3

\* how many containers the deepest Value to render holds inside one another
MaxDepth == 7

\* how many non-empty containers the widest Value to render holds side by side
MaxWide == 7

\* the length of the longest byte string to render
MaxBytes == 9

\* the length of the selectors of every character
MaxSel == 4

\* the number of accessors of the selectors built of accessors
MaxPath == 3

(***************************************************************************)
(* Sequences of bytes                                                      *)
(***************************************************************************)
Min(a, b) == IF a < b THEN a ELSE b

Drop(s, n) == SubSeq(s, n + 1, Len(s))

Take(s, n) == SubSeq(s, 1, Min(n, Len(s)))

RECURSIVE Flatten(_)
Flatten(ss) == IF ss = <<>> THEN <<>> ELSE Head(ss) \o Flatten(Tail(ss))

\* lexicographic order on sequences of numbers, as Ord for [u8] and str
RECURSIVE LexLess(_, _)
LexLess(a, b) ==
    IF b = <<>> THEN FALSE
    ELSE IF a = <<>> THEN TRUE
    ELSE IF Head(a) # Head(b) THEN Head(a) < Head(b)
    ELSE LexLess(Tail(a), Tail(b))

\* the decimal text of a natural number
RECURSIVE DecText(_)
DecText(n) == IF n < 10 THEN <<48 + n>> ELSE DecText(n \div 10) \o <<48 + (n % 10)>>

\* the number a short run of decimal digits denotes
RECURSIVE DecValue(_)
DecValue(ds) ==
    IF ds = <<>> THEN 0 ELSE 10 * DecValue(SubSeq(ds, 1, Len(ds) - 1)) + (ds[Len(ds)] - 48)

\* a run of digits without its leading zeros (one digit is always kept)
RECURSIVE StripZeros(_)
StripZeros(ds) == IF Len(ds) > 1 /\ Head(ds) = 48 THEN StripZeros(Tail(ds)) ELSE ds

\* order of two zero-stripped runs of digits by the numbers they denote
DecLeq(a, b) == \/ Len(a) < Len(b)
                \/ Len(a) = Len(b) /\ (a = b \/ LexLess(a, b))

AllDigits(s) == \A k \in 1..Len(s) : s[k] \in Digits

(***************************************************************************)
(* Numbers.  An i64 is kept as its canonical decimal text (no leading      *)
(* zeros, "-" only before a non-zero magnitude): the texts of the numbers  *)
(* -2^63 .. 2^63-1 and the numbers are in bijection.  A usize / u64 n is   *)
(* kept as n itself when it has at most 9 digits, as n - 2^64 (a negative  *)
(* number, its two's complement reading) when it is within 1616 of 2^64,   *)
(* and as Huge for every value in between: no such value can be reached    *)
(* from, or can reach, a small one by adding or subtracting an offset      *)
(* into a file of the sizes modelled.                                      *)
(***************************************************************************)
Text(ds) == [k \in 1..Len(ds) |-> 48 + ds[k]]

I64MaxText == Text(<<9, 2, 2, 3, 3, 7, 2, 0, 3, 6, 8, 5, 4, 7, 7, 5, 8, 0, 7>>)

I64MinMagText == Text(<<9, 2, 2, 3, 3, 7, 2, 0, 3, 6, 8, 5, 4, 7, 7, 5, 8, 0, 8>>)

U64MaxText == Text(<<1, 8, 4, 4, 6, 7, 4, 4, 0, 7, 3, 7, 0, 9, 5, 5, 1, 6, 1, 5>>)

Huge == 2 ^ 30

\* a parse that saturates: a magnitude out of range gives the end of the range
ParseI64Saturating(s) ==
    LET neg == s # <<>> /\ s[1] = 45
        ds  == IF neg THEN Tail(s) ELSE s
        mag == StripZeros(ds)
    IN  IF ds = <<>> \/ ~AllDigits(ds) THEN [ok |-> FALSE, v |-> <<>>]
        ELSE IF ~DecLeq(mag, IF neg THEN I64MinMagText ELSE I64MaxText)
             THEN [ok |-> TRUE, v |-> IF neg THEN <<45>> \o I64MinMagText ELSE I64MaxText]
        ELSE [ok |-> TRUE, v |-> IF neg /\ mag # <<48>> THEN <<45>> \o mag ELSE mag]

\* str::parse::<i64>() on buf_int: [ok, v], v the canonical text
ParseI64(s) ==
    LET neg == s # <<>> /\ s[1] = 45
        ds  == IF neg THEN Tail(s) ELSE s
        mag == StripZeros(ds)
    IN  IF ds = <<>> \/ ~AllDigits(ds) THEN [ok |-> FALSE, v |-> <<>>]
        ELSE IF ~DecLeq(mag, IF neg THEN I64MinMagText ELSE I64MaxText)
             THEN [ok |-> FALSE, v |-> <<>>]
        ELSE [ok |-> TRUE, v |-> IF neg /\ mag # <<48>> THEN <<45>> \o mag ELSE mag]

\* str::parse::<u64>() on buf_int: [ok, n]; a '-' is an invalid digit
ParseU64(s) ==
    LET mag == StripZeros(s)
    IN  IF s = <<>> \/ ~AllDigits(s) THEN [ok |-> FALSE, n |-> 0]
        ELSE IF ~DecLeq(mag, U64MaxText) THEN [ok |-> FALSE, n |-> 0]
        ELSE IF Len(mag) <= 9 THEN [ok |-> TRUE, n |-> DecValue(mag)]
        ELSE IF Len(mag) = 20 /\ SubSeq(mag, 1, 16) = SubSeq(U64MaxText, 1, 16)
             THEN [ok |-> TRUE, n |-> DecValue(SubSeq(mag, 17, 20)) - 1616]
        ELSE [ok |-> TRUE, n |-> Huge]

\* a usize that is larger than every length of the model
UBig(x) == x < 0 \/ x >= Huge

\* a + b on usize, a small: the sum wraps around 2^64 (debug builds panic)
UOverflows(a, b) == b < 0 /\ a + b >= 0

UAdd(a, b) == IF b >= Huge THEN Huge ELSE a + b

USub(a, b) == IF a >= Huge THEN Huge ELSE a - b

UGreater(x, n) == UBig(x) \/ x > n

(***************************************************************************)
(* String::from_utf8: the well-formed byte sequences of UTF-8               *)
(***************************************************************************)
Cont(s, k) == k <= Len(s) /\ s[k] \in 128..191

\* the length of the well-formed sequence starting at s[k], 0 if there is none
Utf8Width(s, k) ==
    LET b == s[k]
        In(j, lo, hi) == j <= Len(s) /\ s[j] \in lo..hi
    IN  IF b < 128 THEN 1
        ELSE IF b \in 194..223 THEN (IF Cont(s, k + 1) THEN 2 ELSE 0)
        ELSE IF b = 224 THEN (IF In(k + 1, 160, 191) /\ Cont(s, k + 2) THEN 3 ELSE 0)
        ELSE IF b \in 225..236 \cup 238..239
             THEN (IF Cont(s, k + 1) /\ Cont(s, k + 2) THEN 3 ELSE 0)
        ELSE IF b = 237 THEN (IF In(k + 1, 128, 159) /\ Cont(s, k + 2) THEN 3 ELSE 0)
        ELSE IF b = 240
             THEN (IF In(k + 1, 144, 191) /\ Cont(s, k + 2) /\ Cont(s, k + 3) THEN 4 ELSE 0)
        ELSE IF b \in 241..243
             THEN (IF Cont(s, k + 1) /\ Cont(s, k + 2) /\ Cont(s, k + 3) THEN 4 ELSE 0)
        ELSE IF b = 244
             THEN (IF In(k + 1, 128, 143) /\ Cont(s, k + 2) /\ Cont(s, k + 3) THEN 4 ELSE 0)
        ELSE 0

RECURSIVE Utf8From(_, _)
Utf8From(s, k) ==
    IF k > Len(s) THEN TRUE
    ELSE LET w == Utf8Width(s, k) IN w > 0 /\ Utf8From(s, k + w)

IsUtf8(s) == Utf8From(s, 1)

(***************************************************************************)
(* enum Value.  A value is a record [t, b, c]: t the variant, b the bytes  *)
(* of its payload (the canonical text of an Int, the bytes of a Str or of  *)
(* Bytes, the cell of a reference), c its children (the elements of a      *)
(* List, the entries of a Dict in iteration order).  Every value has the   *)
(* three fields, so that any two values can be compared with =.  An        *)
(* Rc<RefCell<..>> is the index of its cell in heap.                       *)
(***************************************************************************)
IntV(text) == [t |-> "Int", b |-> text, c |-> <<>>]

StrV(bytes) == [t |-> "Str", b |-> bytes, c |-> <<>>]

BytesV(bytes) == [t |-> "Bytes", b |-> bytes, c |-> <<>>]

DictV(map) == [t |-> "Dict", b |-> <<>>, c |-> map]

ListV(vec) == [t |-> "List", b |-> <<>>, c |-> vec]

DictRef(rc) == [t |-> "DictRef", b |-> <<rc>>, c |-> <<>>]

ListRef(rc) == [t |-> "ListRef", b |-> <<rc>>, c |-> <<>>]

\* Option::None in a slot of key_stack, val_stack or item_stack
None == [t |-> "None", b |-> <<>>, c |-> <<>>]

\* one (key, value) entry of a BTreeMap<Value, Value>
Entry(key, val) == [t |-> "Entry", b |-> <<>>, c |-> <<key, val>>]

KeyOf(e) == e.c[1]

ValOf(e) == e.c[2]

\* the order of the variants in the enum, which #[derive(Ord)] compares first
VariantIndex(t) ==
    CASE t = "Int" -> 0 [] t = "Str" -> 1 [] t = "Bytes" -> 2 [] t = "Dict" -> 3
      [] t = "List" -> 4 [] t = "DictRef" -> 5 [] t = "ListRef" -> 6

Sign(b) == IF b THEN -1 ELSE 1

\* i64::cmp on canonical texts: -1, 0 or 1
IntCmp(a, b) ==
    LET na == a[1] = 45
        nb == b[1] = 45
    IN  IF a = b THEN 0
        ELSE IF na # nb THEN Sign(na)
        ELSE IF na THEN Sign(~DecLeq(Tail(a), Tail(b)))
        ELSE Sign(DecLeq(a, b))

\* Ord for str and for [u8]: lexicographic by bytes
BytesCmp(a, b) == IF a = b THEN 0 ELSE Sign(LexLess(a, b))

\* #[derive(Ord)] for Value: -1, 0 or 1.  A BTreeMap compares as the sequence
\* of its entries, an entry as the pair (key, value).
RECURSIVE ValueCmp(_, _), ValueSeqCmp(_, _)
ValueCmp(x, y) ==
    IF x.t # y.t THEN Sign(VariantIndex(x.t) < VariantIndex(y.t))
    ELSE CASE x.t = "Int" -> IntCmp(x.b, y.b)
           [] x.t \in {"Str", "Bytes"} -> BytesCmp(x.b, y.b)
           [] x.t = "Dict" ->
                ValueSeqCmp(Flatten([k \in 1..Len(x.c) |-> x.c[k].c]),
                            Flatten([k \in 1..Len(y.c) |-> y.c[k].c]))
           [] x.t = "List" -> ValueSeqCmp(x.c, y.c)
           [] OTHER -> IF x.b = y.b THEN 0 ELSE Sign(x.b[1] < y.b[1])

ValueSeqCmp(xs, ys) ==
    IF xs = <<>> /\ ys = <<>> THEN 0
    ELSE IF xs = <<>> THEN -1
    ELSE IF ys = <<>> THEN 1
    ELSE LET r == ValueCmp(Head(xs), Head(ys))
         IN  IF r # 0 THEN r ELSE ValueSeqCmp(Tail(xs), Tail(ys))

\* BTreeMap::insert: the entry goes to its place in key order; an entry with
\* an equal key keeps its key and takes the new value
RECURSIVE MapInsert(_, _, _)
MapInsert(map, key, val) ==
    IF map = <<>> THEN <<Entry(key, val)>>
    ELSE LET r == ValueCmp(key, KeyOf(Head(map)))
         IN  IF r = 0 THEN <<Entry(KeyOf(Head(map)), val)>> \o Tail(map)
             ELSE IF r < 0 THEN <<Entry(key, val)>> \o map
             ELSE <<Head(map)>> \o MapInsert(Tail(map), key, val)

\* fn str_or_bytes
str_or_bytes(vec) == IF IsUtf8(vec) THEN StrV(vec) ELSE BytesV(vec)

(***************************************************************************)
(* The encoder (Value::encode is called by src/src/interactive.rs; its     *)
(* code is not among the sources, it is modelled from the specification)   *)
(***************************************************************************)
\* the entries of a dict in ascending order of the bytes of their keys
RECURSIVE ByKeyBytes(_)
ByKeyBytes(c) ==
    IF c = <<>> THEN <<>>
    ELSE LET m == CHOOSE k \in 1..Len(c) :
                     \A j \in 1..Len(c) : ~LexLess(KeyOf(c[j]).b, KeyOf(c[k]).b)
         IN  <<c[m]>> \o ByKeyBytes(SubSeq(c, 1, m - 1) \o SubSeq(c, m + 1, Len(c)))

RECURSIVE Encode(_)
Encode(x) ==
    CASE x.t = "Int" -> <<Token.Int>> \o x.b \o <<Token.End>>
      [] x.t \in {"Str", "Bytes"} -> DecText(Len(x.b)) \o <<Token.Colon>> \o x.b
      [] x.t = "List" ->
           <<Token.List>> \o Flatten([k \in 1..Len(x.c) |-> Encode(x.c[k])]) \o <<Token.End>>
      [] x.t = "Dict" ->
           LET es == ByKeyBytes(x.c)
           IN  <<Token.Dict>>
               \o Flatten([k \in 1..Len(es) |-> Encode(KeyOf(es[k])) \o Encode(ValOf(es[k]))])
               \o <<Token.End>>

(***************************************************************************)
(* Inputs                                                                  *)
(***************************************************************************)
\* d l i e : - 0 1 a
Alphabet == {100, 108, 105, 101, 58, 45, 48, 49, 97}

\* every byte string of at most MaxLen bytes
ShortInputs == UNION {[1..n -> Alphabet] : n \in 0..MaxLen}

\* the byte strings of keys and of string values: "", "a", "b" and the
\* ill-formed "a\xFF"
KeyBytes == {<<>>, <<97>>, <<98>>, <<97, 255>>}

Leaves == {IntV(<<48>>), IntV(<<45, 49>>)} \cup {str_or_bytes(k) : k \in KeyBytes \ {<<98>>}}

Keys == {str_or_bytes(k) : k \in KeyBytes}

\* the lists and the dicts of at most two leaves, the dicts as BTreeMaps
Lists1 == {ListV(<<>>)} \cup {ListV(<<x>>) : x \in Leaves}
          \cup {ListV(<<x, y>>) : x \in Leaves, y \in Leaves}

Dicts1 == {DictV(<<>>)} \cup {DictV(MapInsert(<<>>, k, x)) : k \in Keys, x \in Leaves}
          \cup {DictV(MapInsert(MapInsert(<<>>, k, x), l, y)) :
                   k \in Keys, l \in Keys, x \in Leaves, y \in Leaves}

\* containers of at most one leaf, and the values that hold one of them
Small1 == {x \in Lists1 \cup Dicts1 : Len(x.c) <= 1}

Nested == {ListV(<<x>>) : x \in Small1} \cup {ListV(<<x, IntV(<<48>>)>>) : x \in Small1}
          \cup {DictV(MapInsert(<<>>, StrV(<<97>>), x)) : x \in Small1}
          \cup {DictV(MapInsert(MapInsert(<<>>, StrV(<<97>>), x), StrV(<<98>>), IntV(<<48>>))) :
                   x \in Small1}

\* the Values whose encodings are inputs
Values == Leaves \cup Lists1 \cup Dicts1 \cup Nested

EncodedInputs == {Encode(x) : x \in Values}

\* the two orders of the entries of a dict of two entries with distinct keys:
\* <<one order, the other order>>
Swapped ==
    {<< <<Token.Dict>> \o Encode(k) \o Encode(x) \o Encode(l) \o Encode(y) \o <<Token.End>>,
        <<Token.Dict>> \o Encode(l) \o Encode(y) \o Encode(k) \o Encode(x) \o <<Token.End>> >> :
        <<k, l>> \in {kl \in Keys \X Keys : kl[1] # kl[2]}, x \in Leaves, y \in Leaves}

\* a run of n bytes c
Run(c, n) == [k \in 1..n |-> c]

\* integer bodies and length prefixes of MAX_INT_BUF and of MAX_INT_BUF + 1
\* characters, in root, list, dict-value and dict-key position
LongInputs ==
    {pre \o Run(c, n) \o post :
        pre \in {<<105>>, <<108, 105>>, <<100, 49, 58, 97, 105>>, <<100, 48, 58, 105>>},
        c \in {48, 49}, n \in {MAX_INT_BUF, MAX_INT_BUF + 1},
        post \in {<<101>>, <<101, 101>>}}
    \cup
    {pre \o Run(c, n) \o <<58>> \o post :
        pre \in {<<>>, <<108>>, <<100>>, <<100, 49, 58, 97>>},
        c \in {48}, n \in {MAX_INT_BUF, MAX_INT_BUF + 1},
        post \in {<<>>, <<101>>}}

\* a length prefix of 2^64 - 1, at the root and in a list
HugeInputs == {U64MaxText \o <<58>>, <<108>> \o U64MaxText \o <<58>> \o <<101>>}

\* inputs of one byte more than a chunk: an integer followed by bytes that
\* are no part of it, the last byte of the input an 'e'
PaddedInputs ==
    {<<105, 49>> \o Run(97, CHUNK_SIZE - 2) \o <<101>>,
     <<105, 49, 101>> \o Run(97, CHUNK_SIZE - 3) \o <<101>>}

Inputs == ShortInputs \cup EncodedInputs \cup LongInputs \cup HugeInputs \cup PaddedInputs

\* <<the input, the input of a second call of load>>, <<>> for no second call
Cases == {<<s, <<>> >> : s \in Inputs} \cup Swapped

ChunkSizes == {1, SmallChunk, CHUNK_SIZE}

(***************************************************************************)
(* The state of load                                                       *)
(***************************************************************************)
VARIABLES
    input,              \* the bytes of the stream
    other,              \* the bytes of the stream of the next call, <<>> if none
    first,              \* what the call before this one returned
    chunk,              \* the chunk size of this run (CHUNK_SIZE in the program)
    pc,                 \* "start": before the loop, "loop", "done": load returned
    result,             \* what load returned
    stream_pos,         \* the read position of the stream
    file_index, buf_index, buf,
    it,                 \* buf_chars: how many bytes of buf it has yielded
    state, next_state,
    buf_str, buf_str_remainder, buf_int,
    key_stack, val_stack, item_stack, dict_stack, list_stack, dict_i, list_i,
    heap                \* the cells of the Rc<RefCell<..>> allocated so far

\* Value::select: self, its argument, its locals and what it returned
VARIABLES
    data,               \* self, the Value select is called on
    full_selector,      \* the selector select was called with
    selector,           \* the part of the selector not yet parsed
    trav,               \* state, a TraverseState; "Call" before, "Return" after
    current,            \* the container current_dict or current_list iterates
    value,              \* the node selected so far
    selected            \* what select returned

sel == <<data, full_selector, selector, trav, current, value, selected>>

\* hash_value: the Values it is called on and what its calls returned
VARIABLES
    operands,           \* the Values V1 and V2 handed to hash_value
    hashes              \* the u64 of every call of hash_value so far

hsh == <<operands, hashes>>

\* ValueDisplay::fmt: self, its locals and what it wrote to the formatter
VARIABLES
    shown,              \* root, the Value to render
    runs, indent, stack_count,
    show,               \* state, a TraverseState; "Call" before the call
    returns,            \* next_state, the states to come back to
    dict_iters,         \* dict_stack: the map of each open Dict and how far it was read
    list_iters,         \* list_stack, likewise
    out,                \* the characters written to f
    shown_all           \* "Loop" in the loop, "Done" left by its condition, "Break" by break

dsp == <<shown, runs, indent, stack_count, show, returns, dict_iters, list_iters, out, shown_all>>

\* interactive: the State of the session and the call of interactive_cmd
VARIABLES
    state_data,         \* state.data, the tree of the session
    state_changed,      \* state.changed
    cmd,                \* the command interactive_cmd was called with, "" at the prompt
    args,               \* its arguments, as parse_args returned them
    returned,           \* what the last call of interactive_cmd returned
    prior,              \* state.data, state.changed and the arguments as that call was entered
    commands,           \* how many commands were entered
    answer,             \* what prompt_confirm returned to the last command or to the
                        \* exit: "yes", "no", "error", or "none" when it was not called
    written,            \* how many times a file was created and the tree encoded to it
    ending              \* how interactive left its loop, and whether it wrote the file

rpl == <<state_data, state_changed, cmd, args, returned, prior, commands, answer, written,
         ending>>

env == <<input, other, first, chunk, sel, hsh, dsp, rpl>>

cursor == <<stream_pos, file_index, buf_index, buf, it>>

ctl == <<state, next_state>>

strs == <<buf_str, buf_str_remainder, buf_int>>

stacks == <<key_stack, val_stack, item_stack, dict_stack, list_stack, dict_i, list_i, heap>>

vars == <<env, pc, result, cursor, ctl, strs, stacks>>

\* Result<Value, Error>
Ok(v) == [kind |-> "Ok", value |-> v, offset |-> 0, msg |-> ""]

Err(kind) == [kind |-> kind, value |-> None, offset |-> 0, msg |-> ""]

Syntax(offset, msg) == [kind |-> "Syntax", value |-> None, offset |-> offset, msg |-> msg]

\* no result yet
Running == [kind |-> "Running", value |-> None, offset |-> 0, msg |-> ""]

\* a panic: unwrap() on None, an index out of range, an arithmetic overflow
\* in a build with overflow checks
Panic == Err("Panic")

file_size == Len(input)

\* Result<&Value, SelectError>: Ok(value), or an error of the kind Key,
\* Index, Subscriptable, Indexable, Primitive, Syntax or End with its fields
SelectResult(kind) ==
    [kind |-> kind, value |-> None, context |-> <<>>, key |-> <<>>, index |-> 0,
     pos |-> 0, msg |-> ""]

NotSelected == SelectResult("Running")

\* select has not been called
NoSelect ==
    /\ data = None
    /\ full_selector = <<>>
    /\ selector = <<>>
    /\ trav = "Call"
    /\ current = None
    /\ value = None
    /\ selected = NotSelected

\* hash_value has not been called
NoHash == operands = <<>> /\ hashes = <<>>

\* ValueDisplay::fmt has not been called
NoDisplay ==
    /\ shown = None
    /\ runs = 0 /\ indent = 0 /\ stack_count = 0
    /\ show = "Call"
    /\ returns = <<>> /\ dict_iters = <<>> /\ list_iters = <<>>
    /\ out = <<>>
    /\ shown_all = "Loop"

\* no session is open
NoRepl ==
    /\ state_data = None
    /\ state_changed = FALSE
    /\ cmd = ""
    /\ args = <<>>
    /\ returned = [kind |-> "None", why |-> ""]
    /\ prior = [data |-> None, changed |-> FALSE, cmd |-> "", args |-> <<>>, written |-> 0]
    /\ commands = 0
    /\ answer = "none"
    /\ written = 0
    /\ ending = [how |-> "none", wrote |-> FALSE]

\* the locals of load as it enters its loop for the first time
Fresh ==
    /\ stream_pos = 0
    /\ file_index = 0
    /\ buf_index = 0
    /\ buf = <<>>
    /\ it = 0
    /\ state = "Root"
    /\ next_state = <<>>
    /\ buf_str = <<>>
    /\ buf_str_remainder = 0
    /\ buf_int = <<>>
    /\ key_stack = <<>>
    /\ val_stack = <<>>
    /\ item_stack = <<>>
    /\ dict_stack = <<>>
    /\ list_stack = <<>>
    /\ dict_i = -1
    /\ list_i = -1
    /\ heap = <<>>

Init ==
    /\ \E cs \in Cases : input = cs[1] /\ other = cs[2]
    /\ first = Running
    /\ chunk \in ChunkSizes
    /\ pc = "start"
    /\ result = Running
    /\ Fresh
    /\ NoSelect
    /\ NoHash
    /\ NoDisplay
    /\ NoRepl

(***************************************************************************)
(* One iteration of the loop: the reload of the chunk at its top           *)
(***************************************************************************)
InLoop == pc = "loop" /\ file_index + buf_index < file_size

real_index == file_index + buf_index

\* real_index >= file_index + buf.len() (real_index < file_size holds in the loop)
NeedChunk == buf_index >= Len(buf)

\* stream.take(CHUNK_SIZE).read_to_end(&mut buf)
NextChunk == SubSeq(input, stream_pos + 1, Min(stream_pos + chunk, file_size))

\* buf, file_index, buf_index and buf_chars as the match arm finds them
B == IF NeedChunk THEN NextChunk ELSE buf

FI == IF NeedChunk THEN file_index + buf_index ELSE file_index

BI == IF NeedChunk THEN 0 ELSE buf_index

IT == IF NeedChunk THEN 0 ELSE it

\* buf_chars.peek() is Some(_)
HasNext == IT < Len(B)

PeekC == B[IT + 1]

\* the cursor after the arm: buf_chars advanced by dit, buf_index by dbi
Cursor(dit, dbi) ==
    /\ buf' = B
    /\ file_index' = FI
    /\ stream_pos' = IF NeedChunk THEN stream_pos + Len(NextChunk) ELSE stream_pos
    /\ it' = IT + dit
    /\ buf_index' = BI + dbi

\* return r
Return(r) ==
    /\ pc' = "done"
    /\ result' = r
    /\ UNCHANGED <<env, cursor, ctl, strs, stacks>>

Goto(s) == state' = s /\ UNCHANGED next_state

\* a call that does not push the state to return to
CallNoPush(s, ret) == state' = s /\ UNCHANGED next_state

\* next_state.push(ret); state = s
Call(s, ret) == state' = s /\ next_state' = Append(next_state, ret)

\* state = the last of next_state, which stays on the stack
PopStateKeep ==
    /\ state' = next_state[Len(next_state)]
    /\ UNCHANGED next_state

\* state = next_state.pop() (the caller checks that the stack is not empty)
PopState ==
    /\ state' = next_state[Len(next_state)]
    /\ next_state' = SubSeq(next_state, 1, Len(next_state) - 1)

Pop(stack) == SubSeq(stack, 1, Len(stack) - 1)

\* stack[i as usize] is in range
InRange(stack, i) == 0 <= i /\ i < Len(stack)

\* stack[i as usize] = x
Put(stack, i, x) == [stack EXCEPT ![i + 1] = x]

\* i8 arithmetic: the outcomes of an overflow are a panic (overflow checks on)
\* and the wrapped value (overflow checks off)
I8Overflows(x) == x > 127 \/ x < -128

Wrap8(x) == ((x + 128) % 256) - 128

Outcomes(overflows) == IF overflows THEN {"panic", "wrap"} ELSE {"exact"}

(***************************************************************************)
(* load, before the loop                                                   *)
(***************************************************************************)
\* a load that does not look at the size of the file
StartAnySize ==
    /\ pc = "start"
    /\ pc' = "loop"
    /\ UNCHANGED <<env, result, cursor, ctl, strs, stacks>>

Start ==
    /\ pc = "start"
    /\ IF file_size = 0
       THEN Return(Err("Empty"))
       ELSE /\ pc' = "loop"
            /\ UNCHANGED <<env, result, cursor, ctl, strs, stacks>>

(***************************************************************************)
(* The arms of match state                                                 *)
(***************************************************************************)
Root ==
    /\ InLoop /\ state = "Root"
    /\ IF ~HasNext THEN Return(Panic)
       ELSE IF PeekC = Token.Dict THEN
            \E o \in Outcomes(I8Overflows(dict_i + 1)) :
               IF o = "panic" THEN Return(Panic)
               ELSE /\ heap' = Append(heap, <<>>)
                    /\ dict_stack' = Append(dict_stack, Len(heap) + 1)
                    /\ key_stack' = Append(key_stack, None)
                    /\ val_stack' = Append(val_stack, None)
                    /\ dict_i' = Wrap8(dict_i + 1)
                    /\ Call("DictKey", "RootValDict")
                    /\ Cursor(1, 1)
                    /\ UNCHANGED <<env, pc, result, strs, item_stack, list_stack, list_i>>
       ELSE IF PeekC = Token.List THEN
            \E o \in Outcomes(I8Overflows(list_i + 1)) :
               IF o = "panic" THEN Return(Panic)
               ELSE /\ heap' = Append(heap, <<>>)
                    /\ list_stack' = Append(list_stack, Len(heap) + 1)
                    /\ item_stack' = Append(item_stack, None)
                    /\ list_i' = Wrap8(list_i + 1)
                    /\ Call("ListVal", "RootValList")
                    /\ Cursor(1, 1)
                    /\ UNCHANGED <<env, pc, result, strs, key_stack, val_stack, dict_stack, dict_i>>
       ELSE IF PeekC = Token.Int THEN
            /\ Call("Int", "RootValInt")
            /\ Cursor(1, 1)
            /\ UNCHANGED <<env, pc, result, strs, stacks>>
       ELSE IF ~IsToken(PeekC) THEN
            /\ Call("Str", "RootValStr")
            /\ Cursor(0, 0)
            /\ UNCHANGED <<env, pc, result, strs, stacks>>
       ELSE Return(Syntax(real_index, "Unexpected token"))

\* the arm of RootValInt without its buf_index += 1
RootValIntStays ==
    /\ InLoop /\ state = "RootValInt"
    /\ Cursor(0, 0)
    /\ UNCHANGED <<env, pc, result, ctl, strs, stacks>>

\* the rest of the input is skipped, whatever it holds
RootValInt ==
    /\ InLoop /\ state = "RootValInt"
    /\ Cursor(0, 1)
    /\ UNCHANGED <<env, pc, result, ctl, strs, stacks>>

Str ==
    /\ InLoop /\ state = "Str"
    /\ IF buf_int = <<>> THEN
            /\ buf_str' = <<>>
            /\ buf_str_remainder' = 0
            /\ Call("Int", "Str")
            /\ Cursor(0, 0)
            /\ UNCHANGED <<env, pc, result, buf_int, stacks>>
       ELSE IF ~HasNext THEN Return(Err("Eof"))
       ELSE IF PeekC # Token.Colon THEN Return(Syntax(real_index, "Expected ':'"))
       ELSE IF ~ParseU64(buf_int).ok THEN Return(Syntax(real_index, "Invalid integer"))
       ELSE LET buf_str_size == ParseU64(buf_int).n
                bi == BI + 1
                rest == Drop(B, IT + 1)
            IN  \E o \in Outcomes(UOverflows(bi, buf_str_size)) :
                   IF o = "panic" THEN Return(Panic)
                   ELSE IF o = "exact" /\ UGreater(UAdd(bi, buf_str_size), Len(B)) THEN
                        \* the string is bigger than the buffer
                        /\ buf_str_remainder' = USub(buf_str_size, Len(B) - bi)
                        /\ buf_str' = buf_str \o rest
                        /\ buf_int' = <<>>
                        /\ Goto("StrRem")
                        /\ Cursor(1 + Len(rest), 1 + (Len(B) - bi))
                        /\ UNCHANGED <<env, pc, result, stacks>>
                   ELSE IF next_state = <<>> THEN Return(Err("StackUnderflow"))
                   ELSE LET taken == IF UBig(buf_str_size) THEN rest
                                     ELSE Take(rest, buf_str_size)
                        IN  /\ buf_str' = buf_str \o taken
                            /\ buf_int' = <<>>
                            /\ PopState
                            /\ Cursor(1 + Len(taken), 1 + buf_str_size)
                            /\ UNCHANGED <<env, pc, result, buf_str_remainder, stacks>>

StrRem ==
    /\ InLoop /\ state = "StrRem"
    /\ LET rest == Drop(B, IT)
       IN  \E o \in Outcomes(buf_str_remainder # 0 /\ UOverflows(BI, buf_str_remainder)) :
              IF o = "panic" THEN Return(Panic)
              ELSE IF /\ o = "exact"
                      /\ buf_str_remainder # 0
                      /\ UGreater(UAdd(BI, buf_str_remainder), Len(B)) THEN
                   /\ buf_str_remainder' = USub(buf_str_remainder, Len(B) - BI)
                   /\ buf_str' = buf_str \o rest
                   /\ Cursor(Len(rest), Len(B) - BI)
                   /\ UNCHANGED <<env, pc, result, ctl, buf_int, stacks>>
              ELSE IF next_state = <<>> THEN Return(Err("StackUnderflow"))
              ELSE LET taken == IF UBig(buf_str_remainder) THEN rest
                                ELSE Take(rest, buf_str_remainder)
                   IN  /\ buf_str' = buf_str \o taken
                       /\ buf_str_remainder' = 0
                       /\ PopState
                       /\ Cursor(Len(taken), buf_str_remainder)
                       /\ UNCHANGED <<env, pc, result, buf_int, stacks>>

\* State::Int (Int is the set of integers in TLA+)
StateInt ==
    /\ InLoop /\ state = "Int"
    /\ IF ~HasNext THEN Return(Err("Eof"))
       ELSE IF PeekC \in CHARS THEN
            IF PeekC = 45 /\ Len(buf_int) > 0
            THEN Return(Syntax(real_index, "Unexpected '-'"))
            ELSE /\ buf_int' = Append(buf_int, PeekC)
                 /\ Cursor(1, 1)
                 /\ UNCHANGED <<env, pc, result, ctl, buf_str, buf_str_remainder, stacks>>
       ELSE IF Len(buf_int) = 0 THEN Return(Syntax(real_index, "Empty integer"))
       ELSE IF Len(buf_int) > MAX_INT_BUF THEN Return(Err("BigInt"))
       ELSE IF next_state = <<>> THEN Return(Err("StackUnderflow"))
       ELSE /\ PopState
            /\ Cursor(0, 0)
            /\ UNCHANGED <<env, pc, result, strs, stacks>>

\* a reference is kept as it is
unref_kept(x) == x

\* Value::unref on a value of a slot: a reference is replaced by a clone of
\* what its cell holds now
unref(x) ==
    IF x.t = "DictRef" THEN DictV(heap[x.b[1]])
    ELSE IF x.t = "ListRef" THEN ListV(heap[x.b[1]])
    ELSE x

DictKey ==
    /\ InLoop /\ state = "DictKey"
    /\ IF ~HasNext THEN Return(Panic)
       ELSE IF PeekC = Token.End THEN
            IF next_state = <<>> THEN Return(Err("StackUnderflow"))
            ELSE /\ PopState
                 /\ Cursor(1, 1)
                 /\ UNCHANGED <<env, pc, result, strs, stacks>>
       ELSE IF Len(buf_str) = 0 THEN
            /\ Call("Str", "DictKey")
            /\ Cursor(0, 0)
            /\ UNCHANGED <<env, pc, result, strs, stacks>>
       ELSE IF ~InRange(key_stack, dict_i) THEN Return(Panic)
       ELSE /\ key_stack' = Put(key_stack, dict_i, str_or_bytes(buf_str))
            /\ buf_str' = <<>>
            /\ Goto("DictVal")
            /\ Cursor(0, 0)
            /\ UNCHANGED <<env, pc, result, buf_str_remainder, buf_int, val_stack,
                           item_stack, dict_stack, list_stack, dict_i, list_i, heap>>

DictVal ==
    /\ InLoop /\ state = "DictVal"
    /\ IF ~HasNext THEN Return(Err("Eof"))
       ELSE IF PeekC = Token.Dict THEN
            \E o \in Outcomes(I8Overflows(dict_i + 1)) :
               IF ~InRange(val_stack, dict_i) \/ o = "panic" THEN Return(Panic)
               ELSE /\ heap' = Append(heap, <<>>)
                    /\ val_stack' =
                          Append(Put(val_stack, dict_i, DictRef(Len(heap) + 1)), None)
                    /\ dict_stack' = Append(dict_stack, Len(heap) + 1)
                    /\ key_stack' = Append(key_stack, None)
                    /\ dict_i' = Wrap8(dict_i + 1)
                    /\ Call("DictKey", "DictValDict")
                    /\ Cursor(1, 1)
                    /\ UNCHANGED <<env, pc, result, strs, item_stack, list_stack, list_i>>
       ELSE IF PeekC = Token.List THEN
            \E o \in Outcomes(I8Overflows(list_i + 1)) :
               IF ~InRange(val_stack, dict_i) \/ o = "panic" THEN Return(Panic)
               ELSE /\ heap' = Append(heap, <<>>)
                    /\ val_stack' = Put(val_stack, dict_i, ListRef(Len(heap) + 1))
                    /\ list_stack' = Append(list_stack, Len(heap) + 1)
                    /\ item_stack' = Append(item_stack, None)
                    /\ list_i' = Wrap8(list_i + 1)
                    /\ Call("ListVal", "DictValList")
                    /\ Cursor(1, 1)
                    /\ UNCHANGED <<env, pc, result, strs, key_stack, dict_stack, dict_i>>
       ELSE IF PeekC = Token.Int THEN
            /\ Call("Int", "DictValInt")
            /\ Cursor(1, 1)
            /\ UNCHANGED <<env, pc, result, strs, stacks>>
       ELSE IF ~IsToken(PeekC) THEN
            /\ Call("Str", "DictValStr")
            /\ Cursor(0, 0)
            /\ UNCHANGED <<env, pc, result, strs, stacks>>
       ELSE Return(Syntax(real_index, "Unexpected token"))

DictValStr ==
    /\ InLoop /\ state = "DictValStr"
    /\ IF ~InRange(val_stack, dict_i) THEN Return(Panic)
       ELSE /\ val_stack' = Put(val_stack, dict_i, str_or_bytes(buf_str))
            /\ buf_str' = <<>>
            /\ Goto("DictFlush")
            /\ Cursor(0, 0)
            /\ UNCHANGED <<env, pc, result, buf_str_remainder, buf_int, key_stack,
                           item_stack, dict_stack, list_stack, dict_i, list_i, heap>>

DictValInt ==
    /\ InLoop /\ state = "DictValInt"
    /\ IF ~HasNext THEN Return(Panic)
       ELSE IF PeekC # Token.End THEN Return(Syntax(real_index, "Expected 'e' token"))
       ELSE IF ~ParseI64(buf_int).ok THEN Return(Syntax(real_index, "Invalid integer"))
       ELSE IF ~InRange(val_stack, dict_i) THEN Return(Panic)
       ELSE /\ val_stack' = Put(val_stack, dict_i, IntV(ParseI64(buf_int).v))
            /\ buf_int' = <<>>
            /\ Goto("DictFlush")
            /\ Cursor(1, 1)
            /\ UNCHANGED <<env, pc, result, buf_str, buf_str_remainder, key_stack,
                           item_stack, dict_stack, list_stack, dict_i, list_i, heap>>

DictValDict ==
    /\ InLoop /\ state = "DictValDict"
    /\ IF dict_stack = <<>> THEN Return(Err("StackUnderflow"))
       ELSE IF ~InRange(val_stack, dict_i) THEN Return(Panic)
       ELSE \E o \in Outcomes(I8Overflows(dict_i - 1)) :
               IF o = "panic" THEN Return(Panic)
               ELSE IF key_stack = <<>> THEN Return(Err("StackUnderflow"))
               ELSE /\ dict_stack' = Pop(dict_stack)
                    /\ val_stack' =
                          Pop(Put(val_stack, dict_i, DictRef(dict_stack[Len(dict_stack)])))
                    /\ dict_i' = Wrap8(dict_i - 1)
                    /\ key_stack' = Pop(key_stack)
                    /\ Goto("DictFlush")
                    /\ Cursor(0, 0)
                    /\ UNCHANGED <<env, pc, result, strs, item_stack, list_stack, list_i, heap>>

DictValList ==
    /\ InLoop /\ state = "DictValList"
    /\ IF list_stack = <<>> THEN Return(Err("StackUnderflow"))
       ELSE IF ~InRange(val_stack, dict_i) THEN Return(Panic)
       ELSE \E o \in Outcomes(I8Overflows(list_i - 1)) :
               IF o = "panic" THEN Return(Panic)
               ELSE IF item_stack = <<>> THEN Return(Err("StackUnderflow"))
               ELSE /\ list_stack' = Pop(list_stack)
                    /\ val_stack' = Put(val_stack, dict_i, ListRef(list_stack[Len(list_stack)]))
                    /\ list_i' = Wrap8(list_i - 1)
                    /\ item_stack' = Pop(item_stack)
                    /\ Goto("DictFlush")
                    /\ Cursor(0, 0)
                    /\ UNCHANGED <<env, pc, result, strs, key_stack, dict_stack, dict_i, heap>>

DictFlush ==
    /\ InLoop /\ state = "DictFlush"
    /\ IF ~InRange(key_stack, dict_i) \/ ~InRange(val_stack, dict_i)
          \/ ~InRange(dict_stack, dict_i) THEN Return(Panic)
       ELSE IF key_stack[dict_i + 1].t = "None" \/ val_stack[dict_i + 1].t = "None"
            THEN Return(Panic)
       ELSE IF ~HasNext THEN Return(Err("Eof"))
       ELSE /\ heap' = [heap EXCEPT ![dict_stack[dict_i + 1]] =
                           MapInsert(@, key_stack[dict_i + 1], unref(val_stack[dict_i + 1]))]
            /\ UNCHANGED <<env, pc, result, strs, key_stack, val_stack, item_stack,
                           dict_stack, list_stack, dict_i, list_i>>
            /\ IF PeekC = Token.End THEN
                    IF next_state = <<>> THEN Return(Err("StackUnderflow"))
                    ELSE PopState /\ Cursor(1, 1)
               ELSE Goto("DictKey") /\ Cursor(0, 0)

ListVal ==
    /\ InLoop /\ state = "ListVal"
    /\ IF ~HasNext THEN Return(Err("Eof"))
       ELSE IF PeekC = Token.End THEN
            IF next_state = <<>> THEN Return(Err("StackUnderflow"))
            ELSE /\ PopState
                 /\ Cursor(1, 1)
                 /\ UNCHANGED <<env, pc, result, strs, stacks>>
       ELSE IF PeekC = Token.Dict THEN
            \E o \in Outcomes(I8Overflows(dict_i + 1)) :
               IF ~InRange(item_stack, list_i) \/ o = "panic" THEN Return(Panic)
               ELSE /\ heap' = Append(heap, <<>>)
                    /\ item_stack' = Put(item_stack, list_i, DictRef(Len(heap) + 1))
                    /\ dict_stack' = Append(dict_stack, Len(heap) + 1)
                    /\ key_stack' = Append(key_stack, None)
                    /\ val_stack' = Append(val_stack, None)
                    /\ dict_i' = Wrap8(dict_i + 1)
                    /\ Call("DictKey", "ListValDict")
                    /\ Cursor(1, 1)
                    /\ UNCHANGED <<env, pc, result, strs, list_stack, list_i>>
       ELSE IF PeekC = Token.List THEN
            \E o \in Outcomes(I8Overflows(list_i + 1)) :
               IF ~InRange(item_stack, list_i) \/ o = "panic" THEN Return(Panic)
               ELSE /\ heap' = Append(heap, <<>>)
                    /\ item_stack' =
                          Append(Put(item_stack, list_i, ListRef(Len(heap) + 1)), None)
                    /\ list_stack' = Append(list_stack, Len(heap) + 1)
                    /\ list_i' = Wrap8(list_i + 1)
                    /\ Call("ListVal", "ListValList")
                    /\ Cursor(1, 1)
                    /\ UNCHANGED <<env, pc, result, strs, key_stack, val_stack, dict_stack, dict_i>>
       ELSE IF PeekC = Token.Int THEN
            /\ Call("Int", "ListValInt")
            /\ Cursor(1, 1)
            /\ UNCHANGED <<env, pc, result, strs, stacks>>
       ELSE IF ~IsToken(PeekC) THEN
            /\ Call("Str", "ListValStr")
            /\ Cursor(0, 0)
            /\ UNCHANGED <<env, pc, result, strs, stacks>>
       ELSE Return(Syntax(real_index, "Unexpected ':' token"))

ListValStr ==
    /\ InLoop /\ state = "ListValStr"
    /\ IF ~InRange(item_stack, list_i) THEN Return(Panic)
       ELSE /\ item_stack' = Put(item_stack, list_i, str_or_bytes(buf_str))
            /\ buf_str' = <<>>
            /\ Goto("ListFlush")
            /\ Cursor(0, 0)
            /\ UNCHANGED <<env, pc, result, buf_str_remainder, buf_int, key_stack,
                           val_stack, dict_stack, list_stack, dict_i, list_i, heap>>

ListValInt ==
    /\ InLoop /\ state = "ListValInt"
    /\ IF ~HasNext THEN Return(Panic)
       ELSE IF PeekC # Token.End THEN Return(Syntax(real_index, "Expected 'e' token"))
       ELSE IF ~ParseI64(buf_int).ok THEN Return(Syntax(real_index, "Invalid integer"))
       ELSE IF ~InRange(item_stack, list_i) THEN Return(Panic)
       ELSE /\ item_stack' = Put(item_stack, list_i, IntV(ParseI64(buf_int).v))
            /\ buf_int' = <<>>
            /\ Goto("ListFlush")
            /\ Cursor(1, 1)
            /\ UNCHANGED <<env, pc, result, buf_str, buf_str_remainder, key_stack,
                           val_stack, dict_stack, list_stack, dict_i, list_i, heap>>

ListValDict ==
    /\ InLoop /\ state = "ListValDict"
    /\ IF dict_stack = <<>> THEN Return(Err("StackUnderflow"))
       ELSE IF ~InRange(item_stack, list_i) THEN Return(Panic)
       ELSE \E o \in Outcomes(I8Overflows(dict_i - 1)) :
               IF o = "panic" THEN Return(Panic)
               ELSE /\ dict_stack' = Pop(dict_stack)
                    /\ item_stack' =
                          Put(item_stack, list_i, DictV(heap[dict_stack[Len(dict_stack)]]))
                    /\ key_stack' = Pop(key_stack)
                    /\ val_stack' = Pop(val_stack)
                    /\ dict_i' = Wrap8(dict_i - 1)
                    /\ Goto("ListFlush")
                    /\ Cursor(0, 0)
                    /\ UNCHANGED <<env, pc, result, strs, list_stack, list_i, heap>>

ListValList ==
    /\ InLoop /\ state = "ListValList"
    /\ IF list_stack = <<>> THEN Return(Err("StackUnderflow"))
       ELSE IF ~InRange(item_stack, list_i) THEN Return(Panic)
       ELSE \E o \in Outcomes(I8Overflows(list_i - 1)) :
               IF o = "panic" THEN Return(Panic)
               ELSE /\ list_stack' = Pop(list_stack)
                    /\ item_stack' =
                          Pop(Put(item_stack, list_i, ListV(heap[list_stack[Len(list_stack)]])))
                    /\ list_i' = Wrap8(list_i - 1)
                    /\ Goto("ListFlush")
                    /\ Cursor(0, 0)
                    /\ UNCHANGED <<env, pc, result, strs, key_stack, val_stack, dict_stack,
                                   dict_i, heap>>

ListFlush ==
    /\ InLoop /\ state = "ListFlush"
    /\ IF ~InRange(item_stack, list_i) \/ ~InRange(list_stack, list_i) THEN Return(Panic)
       ELSE IF item_stack[list_i + 1].t = "None" THEN Return(Panic)
       ELSE IF ~HasNext THEN Return(Panic)
       ELSE /\ heap' = [heap EXCEPT ![list_stack[list_i + 1]] =
                           Append(@, unref(item_stack[list_i + 1]))]
            /\ UNCHANGED <<env, pc, result, strs, key_stack, val_stack, item_stack,
                           dict_stack, list_stack, dict_i, list_i>>
            /\ IF PeekC = Token.End THEN
                    IF next_state = <<>> THEN Return(Err("StackUnderflow"))
                    ELSE PopState /\ Cursor(1, 1)
               ELSE Goto("ListVal") /\ Cursor(0, 0)

\* the arm `_`: the states that have no arm of their own
Unexpected ==
    /\ InLoop
    /\ state \in {"Dict", "RootValStr", "RootValDict", "RootValList", "Done"}
    /\ Return(Err("UnexpectedState"))

(***************************************************************************)
(* load, after the loop                                                    *)
(***************************************************************************)
\* a finalisation that does not look at the return-state stack
FinishAnyStack ==
    /\ pc = "loop" /\ ~(file_index + buf_index < file_size)
    /\ IF state = "RootValStr" THEN Return(Ok(str_or_bytes(buf_str)))
       ELSE Return(Err("UnexpectedState"))

Finish ==
    /\ pc = "loop" /\ ~(file_index + buf_index < file_size)
    /\ IF Len(next_state) > 0 THEN Return(Err("Eof"))
       ELSE IF state = "RootValInt" THEN
            IF ~(it < Len(buf)) THEN Return(Panic)
            ELSE IF buf[it + 1] # Token.End
                 THEN Return(Syntax(file_size - 1, "Expected 'e' token"))
            ELSE IF ~ParseI64(buf_int).ok
                 THEN Return(Syntax(file_index + buf_index, "Invalid integer"))
            ELSE Return(Ok(IntV(ParseI64(buf_int).v)))
       ELSE IF state = "RootValStr" THEN Return(Ok(str_or_bytes(buf_str)))
       ELSE IF state = "RootValDict" THEN
            IF dict_stack = <<>> THEN Return(Err("StackUnderflow"))
            ELSE Return(Ok(DictV(heap[dict_stack[Len(dict_stack)]])))
       ELSE IF state = "RootValList" THEN
            IF list_stack = <<>> THEN Return(Err("StackUnderflow"))
            ELSE Return(Ok(ListV(heap[list_stack[Len(list_stack)]])))
       ELSE Return(Err("UnexpectedState"))

\* <Error as Display>::fmt: the pieces write! puts out for an Error
error_fmt(e) ==
    CASE e.kind = "Syntax" -> <<"Syntax error at ", DecText(e.offset + 1), ": ", e.msg>>
      [] e.kind = "Empty" -> <<"Empty file">>
      [] e.kind = "Eof" -> <<"Unexpected end of file reached">>
      [] e.kind = "StackUnderflow" -> <<"Stack underflow">>
      [] e.kind = "UnexpectedState" -> <<"Unexpected state in main loop">>
      [] e.kind = "BigInt" -> <<"Integer too big">>
      [] OTHER -> <<>>

(***************************************************************************)
(* State::reload_data: load is called again, on a file that may hold       *)
(* other bytes                                                             *)
(***************************************************************************)
reload_data ==
    /\ pc = "done" /\ other # <<>>
    /\ input' = other
    /\ other' = <<>>
    /\ first' = result
    /\ result' = Running
    /\ pc' = "start"
    /\ stream_pos' = 0 /\ file_index' = 0 /\ buf_index' = 0 /\ buf' = <<>> /\ it' = 0
    /\ state' = "Root" /\ next_state' = <<>>
    /\ buf_str' = <<>> /\ buf_str_remainder' = 0 /\ buf_int' = <<>>
    /\ key_stack' = <<>> /\ val_stack' = <<>> /\ item_stack' = <<>>
    /\ dict_stack' = <<>> /\ list_stack' = <<>>
    /\ dict_i' = -1 /\ list_i' = -1 /\ heap' = <<>>
    /\ UNCHANGED <<chunk, sel, hsh, dsp, rpl>>

Next ==
    \/ Start
    \/ Root \/ RootValInt
    \/ DictKey \/ DictVal \/ DictValStr \/ DictValInt \/ DictValDict \/ DictValList \/ DictFlush
    \/ ListVal \/ ListValStr \/ ListValInt \/ ListValDict \/ ListValList \/ ListFlush
    \/ Str \/ StrRem \/ StateInt
    \/ Unexpected
    \/ Finish
    \/ reload_data

Spec == Init /\ [][Next]_vars

(***************************************************************************)
(* load called once more on the same stream, this time with a chunk that   *)
(* holds the whole file (stream.take(n) with n >= file_size)               *)
(***************************************************************************)
load_whole ==
    /\ pc = "done" /\ first = Running /\ result # Running
    /\ first' = result
    /\ chunk' = IF file_size > CHUNK_SIZE THEN file_size ELSE CHUNK_SIZE
    /\ result' = Running
    /\ pc' = "start"
    /\ stream_pos' = 0 /\ file_index' = 0 /\ buf_index' = 0 /\ buf' = <<>> /\ it' = 0
    /\ state' = "Root" /\ next_state' = <<>>
    /\ buf_str' = <<>> /\ buf_str_remainder' = 0 /\ buf_int' = <<>>
    /\ key_stack' = <<>> /\ val_stack' = <<>> /\ item_stack' = <<>>
    /\ dict_stack' = <<>> /\ list_stack' = <<>>
    /\ dict_i' = -1 /\ list_i' = -1 /\ heap' = <<>>
    /\ UNCHANGED <<input, other, sel, hsh, dsp, rpl>>

InitTwice ==
    /\ input \in Inputs /\ other = <<>>
    /\ first = Running
    /\ chunk \in ChunkSizes
    /\ pc = "start"
    /\ result = Running
    /\ Fresh
    /\ NoSelect
    /\ NoHash
    /\ NoDisplay
    /\ NoRepl

NextTwice ==
    \/ Start
    \/ Root \/ RootValInt
    \/ DictKey \/ DictVal \/ DictValStr \/ DictValInt \/ DictValDict \/ DictValList \/ DictFlush
    \/ ListVal \/ ListValStr \/ ListValInt \/ ListValDict \/ ListValList \/ ListFlush
    \/ Str \/ StrRem \/ StateInt
    \/ Unexpected
    \/ Finish
    \/ load_whole

SpecTwice == InitTwice /\ [][NextTwice]_vars

(***************************************************************************)
(* load on containers nested as deep as the i8 counters dict_i and list_i  *)
(* count, and one deeper, on integers at the ends of the range of i64, and *)
(* on dicts that hold a key more than once                                 *)
(***************************************************************************)
\* the deepest nesting of the inputs: one more than dict_i and list_i hold
MaxNest == 129

\* n copies of the byte string s
Rep(s, n) == [k \in 1..(n * Len(s)) |-> s[((k - 1) % Len(s)) + 1]]

\* n lists, each the only item of the one around it
ListNest(n) == Run(Token.List, n) \o Run(Token.End, n)

\* n dicts, each the value of key "a" of the one around it
DictNest(n) == Rep(<<Token.Dict, 49, 58, 97>>, n - 1) \o <<Token.Dict>> \o Run(Token.End, n)

DeepInputs == {ListNest(n) : n \in {MaxNest - 1, MaxNest}}
              \cup {DictNest(n) : n \in {MaxNest - 1, MaxNest}}

\* integer bodies at the ends of the range of an i64, one past them, and of
\* MAX_INT_BUF characters; with leading zeros; minus zero
IntBodies ==
    {I64MaxText, I64MinMagText, <<45>> \o I64MinMagText,
     <<45>> \o SubSeq(I64MinMagText, 1, 18) \o <<57>>,
     Run(49, MAX_INT_BUF), <<45>> \o Run(49, MAX_INT_BUF - 1), Run(48, MAX_INT_BUF),
     <<48, 48, 55>>, <<45, 48>>, <<45, 48, 49>>}

\* <<what stands before the body of an integer, what stands after it>>: at
\* the root, in a list and as a value of a dict
Frames ==
    {<< <<Token.Int>>, <<Token.End>> >>,
     << <<Token.List, Token.Int>>, <<Token.End, Token.End>> >>,
     << <<Token.Dict, 49, 58, 97, Token.Int>>, <<Token.End, Token.End>> >>}

\* the integers 0 that fill a list up to 9 bytes before the end of a chunk
Filler == (CHUNK_SIZE - 10) \div 3

\* in a list behind Filler integers: the body of 19 digits lies across the
\* end of the first chunk
Across == << <<Token.List>> \o Rep(<<Token.Int, 48, Token.End>>, Filler) \o <<Token.Int>>,
             <<Token.End, Token.End>> >>

\* <<frame, body>> of the integers decoded
IntCases == (Frames \X IntBodies) \cup ({Across} \X {I64MaxText, I64MinMagText})

EdgeInts == {c[1][1] \o c[2] \o c[1][2] : c \in IntCases}

\* a byte string as the input writes it: its length, a colon, its bytes
BStr(b) == DecText(Len(b)) \o <<Token.Colon>> \o b

\* <<the bytes of a value, the Value>>
DupVals ==
    {<< <<Token.Int, 48, Token.End>>, IntV(<<48>>) >>,
     << <<Token.Int, 45, 49, Token.End>>, IntV(<<45, 49>>) >>,
     << BStr(<<97>>), StrV(<<97>>) >>,
     << <<Token.List, Token.End>>, ListV(<<>>) >>,
     << <<Token.Dict>> \o BStr(<<97>>) \o <<Token.Int, 48, Token.End, Token.End>>,
        DictV(<<Entry(StrV(<<97>>), IntV(<<48>>))>>) >>}

\* dicts that hold a key twice, twice around another key, and three times:
\* the input, the key, and the value of its last occurrence
DupCases ==
    {[in |-> <<Token.Dict>> \o BStr(k) \o x[1] \o BStr(k) \o y[1] \o <<Token.End>>,
      key |-> str_or_bytes(k), last |-> y[2]] : k \in KeyBytes, x \in DupVals, y \in DupVals}
    \cup
    {[in |-> <<Token.Dict>> \o BStr(k) \o x[1] \o BStr(<<98, 98>>) \o <<Token.Int, 48, Token.End>>
                 \o BStr(k) \o y[1] \o <<Token.End>>,
      key |-> str_or_bytes(k), last |-> y[2]] : k \in KeyBytes, x \in DupVals, y \in DupVals}
    \cup
    {[in |-> <<Token.Dict>> \o BStr(k) \o x[1] \o BStr(k) \o x[1] \o BStr(k) \o y[1]
                 \o <<Token.End>>,
      key |-> str_or_bytes(k), last |-> y[2]] : k \in KeyBytes, x \in DupVals, y \in DupVals}

DupInputs == {c.in : c \in DupCases}

InitDeep ==
    /\ \E cs \in Cases \cup {<<s, <<>> >> : s \in DeepInputs \cup EdgeInts \cup DupInputs} :
           input = cs[1] /\ other = cs[2]
    /\ first = Running
    /\ chunk \in ChunkSizes
    /\ pc = "start"
    /\ result = Running
    /\ Fresh
    /\ NoSelect
    /\ NoHash
    /\ NoDisplay
    /\ NoRepl

SpecDeep == InitDeep /\ [][Next]_vars

\* the longest input of SpecRuns that is neither an encoded value nor any
\* other input built for a case
MaxRun == 3

Structured == EncodedInputs \cup LongInputs \cup HugeInputs \cup PaddedInputs
               \cup DeepInputs \cup EdgeInts \cup DupInputs

InitRuns == InitDeep /\ (Len(input) <= MaxRun \/ input \in Structured \/ other # <<>>)

\* load runs on: the loop takes its next iteration, the code after the loop
\* its next statement, whenever there is one
SpecRuns == InitRuns /\ [][Next]_vars /\ WF_vars(Next)

(***************************************************************************)
(* Value::select and its two parsers                                       *)
(***************************************************************************)
\* the characters the parsers look for: . [ ] \ - +
Ch == [Dot |-> 46, Open |-> 91, Close |-> 93, Escape |-> 92, Minus |-> 45, Plus |-> 43]

END_CHARS == {Ch.Dot, Ch.Open}

\* "<root>"
ROOT == <<60, 114, 111, 111, 116, 62>>

SelectOk(v) == [SelectResult("Ok") EXCEPT !.value = v]

KeyError(context, key) == [SelectResult("Key") EXCEPT !.context = context, !.key = key]

IndexError(context, index) ==
    [SelectResult("Index") EXCEPT !.context = context, !.index = index]

Subscriptable(context) == [SelectResult("Subscriptable") EXCEPT !.context = context]

Indexable(context) == [SelectResult("Indexable") EXCEPT !.context = context]

Primitive(context) == [SelectResult("Primitive") EXCEPT !.context = context]

SelectSyntax(context, pos, msg) ==
    [SelectResult("Syntax") EXCEPT !.context = context, !.pos = pos, !.msg = msg]

SelectEnd == SelectResult("End")

\* a slice out of the range of its string, unwrap() on None
SelectPanic == SelectResult("Panic")

\* pos: one more than the number of bytes of full that precede rest
context_pos(full, rest) == Len(full) - Len(rest) + 1

\* &full[..pos] panics when pos is beyond the end of full
ContextPanics(full, rest) == context_pos(full, rest) > Len(full)

\* context: the first pos bytes of full, "<root>" for none
context(full, rest) ==
    LET c == SubSeq(full, 1, context_pos(full, rest))
    IN  IF c # <<>> THEN c ELSE ROOT

\* what a parser returns: st = "ok" with the rest of the input and the key or
\* the index, st = "err" with the error, st = "panic"
Parsed(rest, key, index) ==
    [st |-> "ok", rest |-> rest, key |-> key, index |-> index, err |-> NotSelected]

ParseErr(err) == [st |-> "err", rest |-> <<>>, key |-> <<>>, index |-> 0, err |-> err]

ParsePanic == [st |-> "panic", rest |-> <<>>, key |-> <<>>, index |-> 0, err |-> SelectPanic]

\* the end of parse_key_selector, after its loop
KeyLoopEnd(orig, full, kbuf, inp, escaped) ==
    IF escaped
    THEN ParseErr(SelectSyntax(context(full, orig), context_pos(full, orig), "Trailing escape"))
    ELSE IF kbuf = <<>> /\ inp # <<>> THEN Parsed(<<>>, inp, 0)
    ELSE Parsed(inp, kbuf, 0)

\* the loop of parse_key_selector at (i, c) of chars.enumerate(): chars are
\* the characters after the first one, inp is the variable input, which the
\* loop slices again and again with the index i of chars
RECURSIVE KeyLoop(_, _, _, _, _, _, _)
KeyLoop(orig, full, chars, i, kbuf, inp, escaped) ==
    IF i >= Len(chars) THEN KeyLoopEnd(orig, full, kbuf, inp, escaped)
    ELSE LET c == chars[i + 1]
         IN  IF c \in END_CHARS THEN
                 IF escaped THEN
                     IF i + 1 > Len(inp) THEN ParsePanic
                     ELSE KeyLoop(orig, full, chars, i + 1, Append(kbuf, c),
                                  Drop(inp, i + 1), FALSE)
                 ELSE IF i > Len(inp) THEN ParsePanic
                 ELSE KeyLoopEnd(orig, full, kbuf \o SubSeq(inp, 1, i), Drop(inp, i), FALSE)
             ELSE IF c = Ch.Escape THEN
                 IF escaped THEN
                     IF i + 1 > Len(inp) THEN ParsePanic
                     ELSE KeyLoop(orig, full, chars, i + 1, Append(kbuf, c),
                                  Drop(inp, i + 1), FALSE)
                 ELSE IF i + 1 > Len(inp) THEN ParsePanic
                 ELSE KeyLoop(orig, full, chars, i + 1, kbuf \o SubSeq(inp, 1, i),
                              Drop(inp, i + 1), TRUE)
             ELSE IF escaped THEN
                 ParseErr(SelectSyntax(context(full, orig), context_pos(full, orig),
                                       "Cannot escape"))
             ELSE KeyLoop(orig, full, chars, i + 1, kbuf, inp, escaped)

parse_key_selector(inp, full_input) ==
    IF inp = <<>> THEN ParsePanic
    ELSE IF Head(inp) # Ch.Dot
    THEN ParseErr(SelectSyntax(context(full_input, inp), context_pos(full_input, inp),
                               "Expected dot"))
    ELSE KeyLoop(inp, full_input, Tail(inp), 0, <<>>, Tail(inp), FALSE)

\* str::parse::<usize>(): an optional '+', then digits, at most 2^64 - 1
ParseUsize(t) ==
    LET digits == IF t # <<>> /\ Head(t) = Ch.Plus THEN Tail(t) ELSE t
    IN  IF digits = <<>> \/ ~AllDigits(digits) \/ ~DecLeq(StripZeros(digits), U64MaxText)
        THEN [ok |-> FALSE, n |-> 0]
        ELSE IF Len(StripZeros(digits)) <= 9
        THEN [ok |-> TRUE, n |-> DecValue(StripZeros(digits))]
        ELSE [ok |-> TRUE, n |-> Huge]

\* the loop of parse_index_selector at (i, c): chars are the characters after
\* the first one
RECURSIVE IndexLoop(_, _, _, _)
IndexLoop(orig, full, chars, i) ==
    IF i >= Len(chars) THEN ParseErr(SelectEnd)
    ELSE LET c == chars[i + 1]
         IN  IF c = Ch.Close THEN
                 IF ~ParseUsize(SubSeq(chars, 1, i)).ok
                 THEN ParseErr(SelectSyntax(context(full, orig), context_pos(full, orig),
                                            "Not a number"))
                 ELSE Parsed(Drop(chars, i + 1), <<>>, ParseUsize(SubSeq(chars, 1, i)).n)
             ELSE IF c = Ch.Minus
             THEN ParseErr(SelectSyntax(context(full, orig), context_pos(full, orig),
                                        "Unexpected '-'"))
             ELSE IndexLoop(orig, full, chars, i + 1)

parse_index_selector(inp, full_input) ==
    IF inp = <<>> THEN ParsePanic
    ELSE IF Head(inp) # Ch.Open
    THEN ParseErr(SelectSyntax(context(full_input, inp), context_pos(full_input, inp),
                               "Expected '['"))
    ELSE IndexLoop(inp, full_input, Tail(inp), 0)

\* find_map over the entries of a dict: the value of the first key that is a
\* Str and equals key, None if there is none
FindKey(map, key) ==
    LET hits == {k \in 1..Len(map) : KeyOf(map[k]).t = "Str" /\ KeyOf(map[k]).b = key}
    IN  IF hits = {} THEN None
        ELSE ValOf(map[CHOOSE k \in hits : \A l \in hits : k <= l])

\* the variables of load
loadvars == <<input, other, first, chunk, pc, result, cursor, ctl, strs, stacks>>

\* return from select
SelectReturn(r) ==
    /\ selected' = r
    /\ trav' = "Return"
    /\ UNCHANGED <<loadvars, hsh, dsp, rpl, data, full_selector, selector, current, value>>

\* the top of select, before its loop
select ==
    /\ trav = "Call"
    /\ IF data.t \notin {"Dict", "List", "DictRef", "ListRef"}
       THEN SelectReturn(Primitive(ROOT))
       ELSE IF selector = <<>> THEN SelectReturn(SelectOk(data))
       ELSE /\ trav' = "Root"
            /\ value' = data
            /\ current' = None
            /\ UNCHANGED <<loadvars, hsh, dsp, rpl, data, full_selector, selector, selected>>

\* TraverseState::Root
TraverseRoot ==
    /\ trav = "Root"
    /\ trav' = IF value.t = "Dict" THEN "Dict" ELSE IF value.t = "List" THEN "List" ELSE "Root"
    /\ current' = IF value.t \in {"Dict", "List"} THEN value ELSE current
    /\ UNCHANGED <<loadvars, hsh, dsp, rpl, data, full_selector, selector, value, selected>>

\* the end of the arms Dict and List: val is what the lookup found, rest
\* the selector after the accessor, err the error for a val of None
Descend(val, rest, err) ==
    IF val.t = "None" THEN
        IF ContextPanics(full_selector, rest) THEN SelectReturn(SelectPanic)
        ELSE SelectReturn(err)
    ELSE IF rest = <<>> THEN
        /\ value' = val
        /\ trav' = "Done"
        /\ selector' = rest
        /\ current' = None
        /\ UNCHANGED <<loadvars, hsh, dsp, rpl, data, full_selector, selected>>
    ELSE IF val.t \in {"Dict", "List"} THEN
        /\ current' = val
        /\ trav' = val.t
        /\ selector' = rest
        /\ UNCHANGED <<loadvars, hsh, dsp, rpl, data, full_selector, value, selected>>
    ELSE SelectReturn(Primitive(context(full_selector, rest)))

\* TraverseState::Dict
TraverseDict ==
    /\ trav = "Dict"
    /\ IF selector = <<>> \/ current.t # "Dict" THEN SelectReturn(SelectPanic)
       ELSE IF Head(selector) = Ch.Open
       THEN SelectReturn(Indexable(context(full_selector, selector)))
       ELSE LET p == parse_key_selector(selector, full_selector)
            IN  IF p.st # "ok" THEN SelectReturn(p.err)
                ELSE Descend(FindKey(current.c, p.key), p.rest,
                             KeyError(context(full_selector, p.rest), p.key))

\* TraverseState::List
TraverseList ==
    /\ trav = "List"
    /\ IF selector = <<>> \/ current.t # "List" THEN SelectReturn(SelectPanic)
       ELSE IF Head(selector) = Ch.Dot
       THEN SelectReturn(Subscriptable(context(full_selector, selector)))
       ELSE LET p == parse_index_selector(selector, full_selector)
            IN  IF p.st # "ok" THEN SelectReturn(p.err)
                ELSE Descend(IF p.index < Len(current.c) THEN current.c[p.index + 1] ELSE None,
                             p.rest, IndexError(context(full_selector, p.rest), p.index))

\* TraverseState::Done: the loop ends and select returns Ok(value)
TraverseDone ==
    /\ trav = "Done"
    /\ SelectReturn(SelectOk(value))

(***************************************************************************)
(* The Values and the selectors select is called with                      *)
(***************************************************************************)
\* the Dict of the entries <<key bytes, value>> of a sequence
RECURSIVE MkDict(_)
MkDict(pairs) ==
    IF pairs = <<>> THEN <<>>
    ELSE MapInsert(MkDict(SubSeq(pairs, 1, Len(pairs) - 1)),
                   str_or_bytes(pairs[Len(pairs)][1]), pairs[Len(pairs)][2])

\* {a: 0, b: "a"}
SmallDict == DictV(MkDict(<< <<<<97>>, IntV(<<48>>)>>, <<<<98>>, StrV(<<97>>)>> >>))

\* [0, -1]
SmallList == ListV(<<IntV(<<48>>), IntV(<<45, 49>>)>>)

\* [[0, -1], {a: 0, b: "a"}, 0]
MixedList == ListV(<<SmallList, SmallDict, IntV(<<48>>)>>)

\* a Dict with the keys "", ".", "\", "a", "a.b", "a[0", "b" and "a\xFF"
MixedDict ==
    DictV(MkDict(<< <<<<>>, SmallDict>>,
                    <<<<46>>, IntV(<<48>>)>>,
                    <<<<92>>, IntV(<<48>>)>>,
                    <<<<97>>, SmallDict>>,
                    <<<<97, 46, 98>>, SmallDict>>,
                    <<<<97, 91, 48>>, SmallList>>,
                    <<<<98>>, MixedList>>,
                    <<<<97, 255>>, IntV(<<48>>)>> >>))

SelectValues ==
    {IntV(<<48>>), StrV(<<97>>), BytesV(<<97, 255>>), DictV(<<>>), ListV(<<>>),
     SmallDict, MixedList, MixedDict}

\* . [ ] \ - a 0
SelectAlphabet == {46, 91, 93, 92, 45, 97, 48}

\* every selector of at most MaxSel characters
ShortSelectors == UNION {[1..n -> SelectAlphabet] : n \in 0..MaxSel}

\* .a .b .x . [0] [1] [3] .a\.b .a\[0 .a\b [-1] [+0] [0 [a]
Accessors ==
    {<<46, 97>>, <<46, 98>>, <<46, 120>>, <<46>>,
     <<91, 48, 93>>, <<91, 49, 93>>, <<91, 51, 93>>,
     <<46, 97, 92, 46, 98>>, <<46, 97, 92, 91, 48>>, <<46, 97, 92, 98>>,
     <<91, 45, 49, 93>>, <<91, 43, 48, 93>>, <<91, 48>>, <<91, 97, 93>>}

\* the selectors of at most MaxPath of these accessors
PathSelectors ==
    {Flatten(p) : p \in UNION {[1..n -> Accessors] : n \in 0..MaxPath}}

Selectors == ShortSelectors \cup PathSelectors

\* select is called on a Value with a selector; load is not running
InitSelect ==
    /\ input = <<>> /\ other = <<>> /\ first = Running /\ chunk = CHUNK_SIZE
    /\ pc = "idle" /\ result = Running
    /\ Fresh
    /\ data \in SelectValues
    /\ full_selector \in Selectors
    /\ selector = full_selector
    /\ trav = "Call"
    /\ current = None
    /\ value = None
    /\ selected = NotSelected
    /\ NoHash
    /\ NoDisplay
    /\ NoRepl

NextSelect ==
    \/ select
    \/ TraverseRoot \/ TraverseDict \/ TraverseList \/ TraverseDone

SpecSelect == InitSelect /\ [][NextSelect]_vars

(***************************************************************************)
(* hash_value (interactive.rs 402-446): the hasher, what the Hash          *)
(* implementations of the standard library write to it, the closure handed *)
(* to Value::traverse, and the traversal itself                            *)
(***************************************************************************)

\* the w little-endian bytes of n >= 0
RECURSIVE to_le_bytes(_, _)
to_le_bytes(n, w) ==
    IF w = 0 THEN <<>> ELSE <<n % 256>> \o to_le_bytes(n \div 256, w - 1)

\* the 8 bytes of an i64 in two's complement
I64Bytes(n) ==
    IF n >= 0 THEN to_le_bytes(n, 8)
    ELSE [k \in 1..8 |-> 255 - to_le_bytes((0 - n) - 1, 8)[k]]

\* Value::to_i64 on an Int whose text is short
to_i64(v) ==
    IF Head(v.b) = 45 THEN 0 - DecValue(Tail(v.b)) ELSE DecValue(v.b)

\* a hasher whose keys are drawn per instance, as RandomState draws them
RandomState_new == {[k0 |-> k, k1 |-> 0, written |-> <<>>] : k \in {0, 1}}

\* DefaultHasher::new(): SipHash 1-3 with the keys 0 and 0, nothing written
DefaultHasher_new == {[k0 |-> 0, k1 |-> 0, written |-> <<>>]}

\* Hasher::write
write(hasher, bytes) == [hasher EXCEPT !.written = @ \o bytes]

\* Hasher::finish: the digest is a function of the keys and of the bytes
\* written; the model keeps these arguments in the place of the 64 bits,
\* so that two digests are equal when SipHash was given the same arguments
finish(hasher) == <<hasher.k0, hasher.k1, hasher.written>>

\* <i64 as Hash>::hash
hash_i64(hasher, n) == write(hasher, I64Bytes(n))

\* <usize as Hash>::hash, on a 64-bit target
hash_usize(hasher, n) == write(hasher, to_le_bytes(n, 8))

\* <[u8] as Hash>::hash: the length, then the bytes
hash_bytes(hasher, s) == write(hash_usize(hasher, Len(s)), s)

\* <str as Hash>::hash: the bytes, then 0xFF
hash_str(hasher, s) == write(write(hasher, s), <<255>>)

\* the payload of a primitive: to_i64, else to_bytes, else to_str
hash_payload(hasher, v) ==
    CASE v.t = "Int" -> hash_i64(hasher, to_i64(v))
      [] v.t = "Bytes" -> hash_bytes(hasher, v.b)
      [] v.t = "Str" -> hash_str(hasher, v.b)
      [] OTHER -> hasher

\* key.hash(hasher): the key of a Dict entry is a string or a byte string
hash_key(hasher, key) ==
    IF key.t = "Str" THEN hash_str(hasher, key.b) ELSE hash_bytes(hasher, key.b)

is_container(v) == v.t \in {"Dict", "List"}

\* the closure of hash_value, called with a key or an index (-1: none), the
\* parent and the value (None when the parent is left): the TraverseAction
\* it returns and the hasher after the call
visit(hasher, key, index, parent, val, root) ==
    IF val.t # "None" THEN
        IF is_container(val) THEN [action |-> "Enter", hasher |-> hasher]
        ELSE [action |-> "Continue",
              hasher |-> hash_payload(IF key.t # "None" THEN hash_key(hasher, key)
                                      ELSE IF index >= 0 THEN hash_usize(hasher, index)
                                      ELSE hasher, val)]
    ELSE IF parent # root THEN [action |-> "Exit", hasher |-> hasher]
    ELSE [action |-> "Continue", hasher |-> hasher]

\* Value::traverse from child k of the container parent: the depth-first
\* walk calls the closure on every child in order (a Dict in the order of
\* its keys), descends on Enter, and calls it once more with the value None
\* when the children of a container are over
RECURSIVE traverse(_, _, _, _)
traverse(hasher, parent, k, root) ==
    IF k > Len(parent.c) THEN visit(hasher, None, -1, parent, None, root).hasher
    ELSE LET dict == parent.t = "Dict"
             val == IF dict THEN ValOf(parent.c[k]) ELSE parent.c[k]
             v == visit(hasher, IF dict THEN KeyOf(parent.c[k]) ELSE None,
                        IF dict THEN -1 ELSE k - 1, parent, val, root)
         IN  traverse(IF v.action = "Enter" THEN traverse(v.hasher, val, 1, root)
                      ELSE v.hasher, parent, k + 1, root)

\* the hasher of hash_value before finish
Hashed(hasher, root) ==
    IF is_container(root) THEN traverse(hasher, root, 1, root)
    ELSE hash_payload(hasher, root)

\* the operand of each call in turn: V1, V2, then V1 once more
Runs == <<1, 2, 1>>

\* one call of hash_value
hash_value ==
    /\ operands # <<>>
    /\ Len(hashes) < Len(Runs)
    /\ \E hasher \in DefaultHasher_new :
           hashes' = Append(hashes, finish(Hashed(hasher, operands[Runs[Len(hashes) + 1]])))
    /\ UNCHANGED <<loadvars, sel, dsp, rpl, operands>>

\* the Values hash_value is called on
HashValues ==
    SelectValues \cup
    {IntV(<<45, 49>>), IntV(<<50, 53, 54>>), SmallList, ListV(<<StrV(<<97>>)>>),
     ListV(<<SmallList, IntV(<<48>>)>>),
     DictV(MkDict(<< <<<<97>>, SmallList>>, <<<<98>>, IntV(<<48>>)>> >>))}

InitHash ==
    /\ input = <<>> /\ other = <<>> /\ first = Running /\ chunk = CHUNK_SIZE
    /\ pc = "idle" /\ result = Running
    /\ Fresh
    /\ NoSelect
    /\ operands \in HashValues \X HashValues
    /\ hashes = <<>>
    /\ NoDisplay
    /\ NoRepl

NextHash == hash_value

SpecHash == InitHash /\ [][NextHash]_vars

(***************************************************************************)
(* ValueDisplay::fmt (benc.rs 958-1130), one action for each arm of its    *)
(* loop; every action ends with the count of the run and the test of the   *)
(* limit                                                                   *)
(***************************************************************************)
RUN_LIMIT == 2000

STACK_LIMIT == 5

\* <Value as Display>::fmt: ValueDisplay::new(self, 2)
indent_size == 2

\* "\n<truncating as output would be too big...>"
TRUNCATING == <<10, 60, 116, 114, 117, 110, 99, 97, 116, 105, 110, 103, 32, 97, 115, 32, 111, 117, 116, 112, 117, 116, 32, 119, 111, 117, 108, 100, 32, 98, 101, 32, 116, 111, 111, 32, 98, 105, 103, 46, 46, 46, 62>>

Spaces(n) == [k \in 1..n |-> 32]

\* one digit of {:02X}
HexDigit(d) == IF d < 10 THEN 48 + d ELSE 55 + d

repr_bytes(bytes, truncate_at) ==
    LET head == Take(bytes, truncate_at)
    IN  <<98, 34>>
        \o Flatten([k \in 1..Len(head) |->
                      IF head[k] >= 32 /\ head[k] < 128 THEN <<head[k]>>
                      ELSE <<92, 120, HexDigit(head[k] \div 16), HexDigit(head[k] % 16)>>])
        \o <<34>>
        \o (IF Len(bytes) > truncate_at
            THEN <<46, 46, 46, 32, 40>> \o DecText(Len(bytes)) \o <<32, 98, 121, 116, 101, 115, 41>>
            ELSE <<>>)

\* {:?} of a str: quoted, the quote and the backslash escaped (the strings
\* of the model hold no other character that Debug escapes)
str_debug(str) ==
    <<34>>
    \o Flatten([k \in 1..Len(str) |->
                  IF str[k] \in {34, 92} THEN <<92, str[k]>> ELSE <<str[k]>>])
    \o <<34>>

\* what the arms write for an Int, a Str and a Bytes
fmt_primitive(v, truncate_at) ==
    CASE v.t = "Int" -> v.b
      [] v.t = "Str" -> str_debug(v.b)
      [] OTHER -> repr_bytes(v.b, truncate_at)

\* m.iter().peekable(): the entries or items and the index of the next one
Iter(items) == [c |-> items, k |-> 1]

Last(stack) == stack[Len(stack)]

Front(stack) == SubSeq(stack, 1, Len(stack) - 1)

\* it.next() on the innermost iterator
Advanced(stack) == [stack EXCEPT ![Len(stack)].k = @ + 1]

\* the end of n runs of the loop: the text written, the locals, runs += 1 in
\* each and the break at RUN_LIMIT
RanOn(n, text, st, rets, dicts, lists, ind, cnt) ==
    /\ out' = out \o text \o (IF runs + n = RUN_LIMIT THEN TRUNCATING ELSE <<>>)
    /\ show' = st
    /\ returns' = rets
    /\ dict_iters' = dicts
    /\ list_iters' = lists
    /\ indent' = ind
    /\ stack_count' = cnt
    /\ runs' = runs + n
    /\ shown_all' = IF runs + n = RUN_LIMIT THEN "Break"
                    ELSE IF st = "Done" THEN "Done" ELSE "Loop"
    /\ UNCHANGED <<loadvars, sel, hsh, rpl, shown>>

\* one iteration of the loop
Ran(text, st, rets, dicts, lists, ind, cnt) ==
    RanOn(1, text, st, rets, dicts, lists, ind, cnt)

\* return Err(fmt::Error), or a panic of unwrap
Failed(how) ==
    /\ shown_all' = how
    /\ UNCHANGED <<loadvars, sel, hsh, rpl, shown, runs, indent, stack_count, show, returns,
                   dict_iters, list_iters, out>>

\* ValueDisplay::fmt is called
fmt ==
    /\ show = "Call" /\ shown.t # "None"
    /\ show' = "Root"
    /\ UNCHANGED <<loadvars, sel, hsh, rpl, shown, runs, indent, stack_count, returns,
                   dict_iters, list_iters, out, shown_all>>

FmtRoot ==
    /\ shown_all = "Loop" /\ show = "Root"
    /\ IF shown.t \in {"Int", "Str", "Bytes"} THEN
            Ran(fmt_primitive(shown, 32), "Done", returns, dict_iters, list_iters,
                indent, stack_count)
       ELSE IF shown.t = "Dict" THEN
            Ran(<<123, 10>> \o Spaces(indent * indent_size), "Dict", Append(returns, "Done"),
                Append(dict_iters, Iter(shown.c)), list_iters, indent + 1, stack_count)
       ELSE IF shown.t = "List" THEN
            Ran(<<91>>, "List", Append(returns, "Done"), dict_iters,
                Append(list_iters, Iter(shown.c)), indent, stack_count)
       ELSE Failed("Error")

FmtDict ==
    /\ shown_all = "Loop" /\ show = "Dict"
    /\ IF dict_iters = <<>> THEN Failed("Panic")
       ELSE IF Last(dict_iters).k <= Len(Last(dict_iters).c) THEN
            LET entry == Last(dict_iters).c[Last(dict_iters).k]
                val == ValOf(entry)
                head == Spaces(indent * indent_size) \o fmt_primitive(KeyOf(entry), 32)
                        \o <<58, 32>>
                dicts == Advanced(dict_iters)
            IN  IF val.t \in {"Int", "Str", "Bytes"} THEN
                     Ran(head \o fmt_primitive(val, 8) \o <<44, 10>>, "Dict", returns, dicts,
                         list_iters, indent, stack_count)
                ELSE IF val.t = "Dict" THEN
                     IF val.c = <<>> THEN
                          Ran(head \o <<123, 125, 44, 10>>, "Dict", returns, dicts, list_iters,
                              indent, stack_count)
                     ELSE IF stack_count < STACK_LIMIT THEN
                          Ran(head \o <<123, 10>>, "Dict", Append(returns, "Dict"),
                              Append(dicts, Iter(val.c)), list_iters, indent + 1,
                              stack_count + 1)
                     ELSE Ran(head \o <<123, 46, 46, 46, 125, 44, 10>>, "Dict", returns, dicts,
                              list_iters, indent, stack_count)
                ELSE IF val.t = "List" THEN
                     IF val.c = <<>> THEN
                          Ran(head \o <<91, 93, 44, 10>>, "Dict", returns, dicts, list_iters,
                              indent, stack_count)
                     ELSE IF stack_count < STACK_LIMIT THEN
                          Ran(head \o <<91>>, "List", Append(returns, "Dict"), dicts,
                              Append(list_iters, Iter(val.c)), indent, stack_count + 1)
                     ELSE Ran(head \o <<91, 46, 46, 46, 93, 44, 10>>, "Dict", returns, dicts,
                              list_iters, indent, stack_count)
                ELSE Failed("Error")
       ELSE IF returns = <<>> THEN Failed("Error")
       ELSE Ran(Spaces((indent - 1) * indent_size) \o <<125>>
                \o (IF Last(returns) = "Dict" THEN <<44, 10>> ELSE <<>>),
                Last(returns), Front(returns), Front(dict_iters), list_iters, indent - 1,
                stack_count)

\* how many primitive elements follow one another in items from position k on
Primitives(items, k) ==
    LET others == {j \in k..Len(items) : items[j].t \notin {"Int", "Str", "Bytes"}}
    IN  IF others = {} THEN Len(items) - k + 1
        ELSE (CHOOSE j \in others : \A i \in others : j <= i) - k

Min2(a, b) == IF a < b THEN a ELSE b

\* the texts parts[lo] .. parts[hi] one after the other
RECURSIVE Flat(_, _, _)
Flat(parts, lo, hi) ==
    IF lo > hi THEN <<>>
    ELSE IF lo = hi THEN parts[lo]
    ELSE LET mid == (lo + hi) \div 2
         IN  Flat(parts, lo, mid) \o Flat(parts, mid + 1, hi)

\* what one iteration writes for the primitive element j of a List: the
\* element, and ", " unless peek() finds no element after it
ListItem(items, j) ==
    fmt_primitive(items[j], 8) \o (IF j + 1 > Len(items) THEN <<>> ELSE <<44, 32>>)

\* the innermost iterator after n calls of next()
Skipped(stack, n) == [stack EXCEPT ![Len(stack)].k = @ + n]

\* the List arm. The iterations over primitive elements that follow one
\* another change nothing but the iterator, the output and runs, and are one
\* step here, each of them counted in runs and cut at RUN_LIMIT as the check
\* after every iteration cuts them.
FmtList ==
    /\ shown_all = "Loop" /\ show = "List"
    /\ IF list_iters = <<>> THEN Failed("Panic")
       ELSE IF Last(list_iters).k <= Len(Last(list_iters).c) THEN
            LET val == Last(list_iters).c[Last(list_iters).k]
                lists == Advanced(list_iters)
            IN  IF val.t \in {"Int", "Str", "Bytes"} THEN
                     LET cur == Last(list_iters)
                         n == Min2(Primitives(cur.c, cur.k), RUN_LIMIT - runs)
                     IN  RanOn(n, Flat([j \in 1..n |-> ListItem(cur.c, cur.k + j - 1)], 1, n),
                               "List", returns, dict_iters, Skipped(list_iters, n), indent,
                               stack_count)
                ELSE IF val.t = "Dict" THEN
                     IF val.c = <<>> THEN
                          Ran(<<123, 125>>, "List", returns, dict_iters, lists, indent,
                              stack_count)
                     ELSE IF stack_count < STACK_LIMIT THEN
                          Ran(<<123, 10>>, "Dict", Append(returns, "List"),
                              Append(dict_iters, Iter(val.c)), lists, indent + 1,
                              stack_count + 1)
                     ELSE Ran(<<123, 46, 46, 46, 125>>, "List", returns, dict_iters, lists,
                              indent, stack_count)
                ELSE IF val.t = "List" THEN
                     IF val.c = <<>> THEN
                          Ran(<<91, 93>>, "List", returns, dict_iters, lists, indent,
                              stack_count)
                     ELSE IF stack_count < STACK_LIMIT THEN
                          Ran(<<91>>, "List", Append(returns, "List"), dict_iters,
                              Append(lists, Iter(val.c)), indent, stack_count + 1)
                     ELSE Ran(<<91, 46, 46, 46, 93>>, "List", returns, dict_iters, lists,
                              indent, stack_count)
                ELSE Failed("Error")
       ELSE IF returns = <<>> THEN Failed("Error")
       ELSE LET lists == Front(list_iters)
                st == Last(returns)
            IN  IF st = "List" /\ lists = <<>> THEN Failed("Panic")
                ELSE Ran(<<93>>
                         \o (IF st = "Dict" THEN <<44, 10>>
                             ELSE IF st = "List" /\ Last(lists).k <= Len(Last(lists).c)
                                  THEN <<44, 32>>
                             ELSE <<>>),
                         st, Front(returns), dict_iters, lists, indent, stack_count)

\* a List of n times the Int 0
Zeros(n) == ListV([k \in 1..n |-> IntV(<<48>>)])

\* [0] inside n more Lists
RECURSIVE NestedList(_)
NestedList(n) == IF n = 0 THEN Zeros(1) ELSE ListV(<<NestedList(n - 1)>>)

\* {a: 0} inside n more Dicts
RECURSIVE NestedDict(_)
NestedDict(n) ==
    IF n = 0 THEN DictV(MkDict(<< <<<<97>>, IntV(<<48>>)>> >>))
    ELSE DictV(MkDict(<< <<<<97>>, NestedDict(n - 1)>> >>))

\* n times the List [0] side by side in a List
Wide(n) == ListV([k \in 1..n |-> Zeros(1)])

\* the Values ValueDisplay::fmt is called on
ShowValues ==
    SelectValues
    \cup {SmallList, BytesV([k \in 1..MaxBytes |-> 255]),
          ListV(<<BytesV([k \in 1..MaxBytes |-> 255])>>)}
    \cup {ListV(<<x, y>>) : x, y \in {IntV(<<48>>), StrV(<<97>>), DictV(<<>>), ListV(<<>>),
                                      SmallDict, SmallList}}
    \cup {DictV(MkDict(<< <<<<97>>, x>>, <<<<98>>, y>> >>)) :
              x, y \in {IntV(<<48>>), DictV(<<>>), ListV(<<>>), SmallDict, SmallList}}
    \cup {NestedList(n) : n \in 0..MaxDepth} \cup {NestedDict(n) : n \in 0..MaxDepth}
    \cup {Wide(n) : n \in 1..MaxWide}
    \cup {ListV(<<Wide(n), SmallList>>) : n \in 1..MaxWide}
    \cup {Zeros(n) : n \in (RUN_LIMIT - 4)..(RUN_LIMIT - 1)}

InitDisplay ==
    /\ input = <<>> /\ other = <<>> /\ first = Running /\ chunk = CHUNK_SIZE
    /\ pc = "idle" /\ result = Running
    /\ Fresh
    /\ NoSelect
    /\ NoHash
    /\ shown \in ShowValues
    /\ runs = 0 /\ indent = 0 /\ stack_count = 0
    /\ show = "Call"
    /\ returns = <<>> /\ dict_iters = <<>> /\ list_iters = <<>>
    /\ out = <<>>
    /\ shown_all = "Loop"
    /\ NoRepl

NextDisplay == fmt \/ FmtRoot \/ FmtDict \/ FmtList

SpecDisplay == InitDisplay /\ [][NextDisplay]_vars

(***************************************************************************)
(* The Bencode grammar, as a scanner that reads one value of the sentence  *)
(*   value := int | string | list | dict                                   *)
(*   int := 'i' ['-'] digit+ 'e'        string := digit+ ':' byte^N        *)
(*   list := 'l' value* 'e'             dict := 'd' (string value)* 'e'    *)
(* from position k of s.  It answers st = "ok" with the value read and the *)
(* position after it, st = "more" when s ends inside the value, and        *)
(* st = "bad" with the position and the kind of the first byte that no     *)
(* sentence has there.                                                     *)
(***************************************************************************)
RefOk(val, end) == [st |-> "ok", end |-> end, val |-> val, why |-> ""]

RefBad(why, end) == [st |-> "bad", end |-> end, val |-> None, why |-> why]

RefMore(why) == [st |-> "more", end |-> 0, val |-> None, why |-> why]

\* the first position from k on whose byte is not in set, Len(s) + 1 if none
Span(s, k, set) ==
    LET stops == {j \in k..Len(s) : s[j] \notin set}
    IN  IF stops = {} THEN Len(s) + 1 ELSE CHOOSE j \in stops : \A l \in stops : j <= l

\* s[k] is 'i'
RefInt(s, k) ==
    LET j == Span(s, k + 1, CHARS)
        body == SubSeq(s, k + 1, j - 1)
        minus == {l \in 2..Len(body) : body[l] = 45}
    IN  IF minus # {} THEN RefBad("int-minus", k + (CHOOSE l \in minus : \A m \in minus : l <= m))
        ELSE IF j > Len(s) THEN RefMore("int")
        ELSE IF body = <<>> THEN RefBad("int-empty", j)
        ELSE IF s[j] # Token.End THEN RefBad("int-unterminated", j)
        ELSE IF Len(body) > MAX_INT_BUF THEN RefBad("oversize-int", j)
        ELSE IF body = <<45>> THEN RefBad("int-nodigits", j)
        ELSE IF ~ParseI64(body).ok THEN RefBad("range", j)
        ELSE RefOk(IntV(ParseI64(body).v), j + 1)

\* s[k] is a digit
RefStr(s, k) ==
    LET j == Span(s, k, Digits)
        prefix == SubSeq(s, k, j - 1)
        n == ParseU64(prefix).n
    IN  IF j > Len(s) THEN RefMore("length")
        ELSE IF s[j] # Token.Colon THEN RefBad("colon", j)
        ELSE IF Len(prefix) > MAX_INT_BUF THEN RefBad("oversize-len", j)
        ELSE IF ~ParseU64(prefix).ok \/ UBig(n) \/ j + n > Len(s) THEN RefMore("bytes")
        ELSE RefOk(str_or_bytes(SubSeq(s, j + 1, j + n)), j + n + 1)

RECURSIVE RefValue(_, _), RefList(_, _, _), RefDict(_, _, _)
RefValue(s, k) ==
    IF k > Len(s) THEN RefMore("value")
    ELSE IF s[k] = Token.Int THEN RefInt(s, k)
    ELSE IF s[k] \in Digits THEN RefStr(s, k)
    ELSE IF s[k] = Token.List THEN RefList(s, k + 1, <<>>)
    ELSE IF s[k] = Token.Dict THEN RefDict(s, k + 1, <<>>)
    ELSE RefBad("value", k)

\* the elements of an open list from position k on, acc the elements read
RefList(s, k, acc) ==
    IF k > Len(s) THEN RefMore("list")
    ELSE IF s[k] = Token.End THEN RefOk(ListV(acc), k + 1)
    ELSE LET r == RefValue(s, k)
         IN  IF r.st # "ok" THEN r ELSE RefList(s, r.end, Append(acc, r.val))

\* the entries of an open dict from position k on, acc the entries read
RefDict(s, k, acc) ==
    IF k > Len(s) THEN RefMore("dict")
    ELSE IF s[k] = Token.End THEN RefOk(DictV(acc), k + 1)
    ELSE IF s[k] \notin Digits THEN RefBad("key", k)
    ELSE LET r == RefStr(s, k)
         IN  IF r.st # "ok" THEN r
             ELSE LET v == RefValue(s, r.end)
                  IN  IF v.st = "more" THEN RefMore("dict")
                      ELSE IF v.st # "ok" THEN v
                      ELSE RefDict(s, v.end, MapInsert(acc, r.val, v.val))

\* what the grammar says of the whole input
Ref == RefValue(input, 1)

\* the whole input is one sentence
Sentence == Ref.st = "ok" /\ Ref.end = Len(input) + 1

Done == pc = "done"

\* load has returned, having read the file in chunks of CHUNK_SIZE bytes
Returned == Done /\ chunk = CHUNK_SIZE

\* load returned an Error
IsError == result.kind \notin {"Ok", "Running", "Panic"}

(***************************************************************************)
(* Round trip and soundness                                                *)
(***************************************************************************)
\* <<the encoding of a Value, the Value>>
Decoded == {<<Encode(x), x>> : x \in Values}

\* C1: load applied to the encoding of a Value V (Int, byte strings, Lists
\* and Dicts keyed by byte strings, the empty byte string and the empty
\* containers included as keys or as values) returns Ok(V).
C1_RoundTrip ==
    Returned => \A p \in Decoded : input = p[1] => result = Ok(p[2])

\* C2: load returns Ok(V) only if the whole input is one sentence of the
\* grammar and V is the value the sentence denotes; every other input yields
\* an Error.
C2_Sound ==
    Returned =>
        /\ result.kind = "Ok" => Sentence /\ result.value = Ref.val
        /\ ~Sentence => IsError

\* <<the input, the Value>> of `0:` as the root value, as a list element, as
\* a dict value and as a dict key: `0:`, `l0:e`, `d1:a0:e` and `d0:i0ee`
EmptyStringCases ==
    {<< <<48, 58>>, StrV(<<>>) >>,
     << <<108, 48, 58, 101>>, ListV(<<StrV(<<>>)>>) >>,
     << <<100, 49, 58, 97, 48, 58, 101>>, DictV(<<Entry(StrV(<<97>>), StrV(<<>>))>>) >>,
     << <<100, 48, 58, 105, 48, 101, 101>>, DictV(<<Entry(StrV(<<>>), IntV(<<48>>))>>) >>}

\* C3: a zero-length string `0:` decodes to the empty byte string wherever
\* the grammar allows a string: as the root value, as a list element, as a
\* dict value and as a dict key (`d0:i0ee` is a Dict of one entry whose key
\* is the empty byte string).
C3_EmptyString ==
    Returned => \A p \in EmptyStringCases : input = p[1] => result = Ok(p[2])

(***************************************************************************)
(* Errors                                                                  *)
(***************************************************************************)
\* C4: when the input ends while a dict or a list is open, while an integer
\* or a length prefix is unterminated, or before the declared number of
\* bytes of a string has been read, load returns Error::Eof.
C4_Eof ==
    Returned /\ input # <<>> /\ Ref.st = "more" => result = Err("Eof")

\* C5: load returns Error::Empty on the input of zero bytes, and on no
\* other input.
C5_Empty ==
    Done => (result = Err("Empty") <=> input = <<>>)

\* the input of zero bytes has been loaded and refused as Empty
C5_EmptySeen == Done /\ input = <<>> /\ result = Err("Empty")

\* every key of every Dict of x is a Str or a Bytes
RECURSIVE StringKeys(_)
StringKeys(x) ==
    CASE x.t = "Dict" ->
           \A k \in 1..Len(x.c) :
               KeyOf(x.c[k]).t \in {"Str", "Bytes"} /\ StringKeys(ValOf(x.c[k]))
      [] x.t = "List" -> \A k \in 1..Len(x.c) : StringKeys(x.c[k])
      [] OTHER -> TRUE

\* C6: when the byte at a dict key position is neither a digit nor the
\* closing 'e', load returns a Syntax error; and no Value load returns has a
\* key that is not a string.
C6_KeyPosition ==
    Returned =>
        /\ Ref.st = "bad" /\ Ref.why = "key" => result.kind = "Syntax"
        /\ result.kind = "Ok" => StringKeys(result.value)

\* the input holds more than MAX_INT_BUF characters of a number in a row
LongBody ==
    \E k \in 1..(Len(input) - MAX_INT_BUF) :
        \A j \in k..(k + MAX_INT_BUF) : input[j] \in CHARS

\* C7: an integer body or a length prefix of more than 32 characters that is
\* followed by its terminator makes load return Error::BigInt, and no body
\* of at most 32 characters is reported as BigInt.
C7_Oversize ==
    Returned =>
        /\ Ref.st = "bad" /\ Ref.why \in {"oversize-int", "oversize-len"}
               => result = Err("BigInt")
        /\ result = Err("BigInt") => LongBody

\* C8: an integer with an empty body, with a '-' anywhere but in the first
\* position, or not terminated by 'e' after its digits makes load return a
\* Syntax error, in root, dict-value and list-element position alike.
C8_IntBody ==
    Returned /\ Ref.st = "bad" /\ Ref.why \in {"int-empty", "int-minus", "int-unterminated"}
        => result.kind = "Syntax"

(***************************************************************************)
(* The order of the keys                                                   *)
(***************************************************************************)
\* the keys of every Dict of x ascend by their bytes
RECURSIVE KeysAscend(_)
KeysAscend(x) ==
    CASE x.t = "Dict" ->
           /\ \A k \in 1..(Len(x.c) - 1) : LexLess(KeyOf(x.c[k]).b, KeyOf(x.c[k + 1]).b)
           /\ \A k \in 1..Len(x.c) : KeysAscend(ValOf(x.c[k]))
      [] x.t = "List" -> \A k \in 1..Len(x.c) : KeysAscend(x.c[k])
      [] OTHER -> TRUE

\* C9: in every Dict of a Value load returns, the keys ascend by their raw
\* bytes, the keys stored as Str and the keys stored as Bytes alike.
C9_KeyOrder ==
    Returned /\ result.kind = "Ok" => KeysAscend(result.value)

\* C10: a dict whose entries come in any order is accepted, and for distinct
\* keys the order of the entries in the input does not change the Value:
\* load of the entries in one order, then of the same entries in the other.
C10_AnyOrder ==
    Returned /\ first # Running => first.kind = "Ok" /\ result = first

(***************************************************************************)
(* The selector language, as a walk that follows a selector from a Value:  *)
(*   selector := (key_sel | index_sel)*                                    *)
(*   key_sel := '.' key_chars            index_sel := '[' digit+ ']'       *)
(* key_chars run to the next '.' or '[' that no backslash precedes; a      *)
(* backslash makes a '.' or a '[' part of the key and may precede nothing  *)
(* else.  The walk answers Ok with the node reached, or the kind of the    *)
(* first accessor that fails, with the positions from..to of that accessor *)
(* in the selector.                                                        *)
(***************************************************************************)
Walked(kind, val, from, to, key, index, why) ==
    [kind |-> kind, value |-> val, from |-> from, to |-> to, key |-> key,
     index |-> index, why |-> why]

WalkFail(kind, from, to, why) == Walked(kind, None, from, to, <<>>, 0, why)

\* the last position of the key accessor whose key_chars start at j
RECURSIVE KeyEnd(_, _)
KeyEnd(s, j) ==
    IF j > Len(s) THEN Len(s)
    ELSE IF s[j] \in END_CHARS THEN j - 1
    ELSE IF s[j] = Ch.Escape THEN (IF j + 1 > Len(s) THEN Len(s) ELSE KeyEnd(s, j + 2))
    ELSE KeyEnd(s, j + 1)

\* the key that the key_chars at j..to denote
RECURSIVE KeyText(_, _, _)
KeyText(s, j, to) ==
    IF j > to THEN <<>>
    ELSE IF s[j] = Ch.Escape
    THEN (IF j + 1 > to THEN <<>> ELSE <<s[j + 1]>> \o KeyText(s, j + 2, to))
    ELSE <<s[j]>> \o KeyText(s, j + 1, to)

\* the key_chars at j..to hold a backslash that is the last character or
\* that precedes a character other than '.' and '['
RECURSIVE BadEscape(_, _, _)
BadEscape(s, j, to) ==
    IF j > to THEN FALSE
    ELSE IF s[j] = Ch.Escape
    THEN (IF j + 1 > to \/ s[j + 1] \notin END_CHARS THEN TRUE ELSE BadEscape(s, j + 2, to))
    ELSE BadEscape(s, j + 1, to)

\* the position of the ']' that closes the index accessor at k, 0 for none
CloseOf(s, k) ==
    LET closes == {j \in (k + 1)..Len(s) : s[j] = Ch.Close}
    IN  IF closes = {} THEN 0 ELSE CHOOSE j \in closes : \A l \in closes : j <= l

\* the last position of the accessor that starts at k with '.' or '['
AccessorEnd(s, k) ==
    IF s[k] = Ch.Dot THEN KeyEnd(s, k + 1)
    ELSE IF CloseOf(s, k) = 0 THEN Len(s) ELSE CloseOf(s, k)

\* the entry of a dict whose key has the bytes key, None for none
EntryOf(map, key) ==
    LET hits == {k \in 1..Len(map) : KeyOf(map[k]).b = key}
    IN  IF hits = {} THEN None ELSE ValOf(map[CHOOSE k \in hits : TRUE])

RECURSIVE Walk(_, _, _)
Walk(v, s, k) ==
    IF k > Len(s) THEN Walked("Ok", v, 0, 0, <<>>, 0, "")
    ELSE IF s[k] \notin END_CHARS THEN WalkFail("NoAccessor", k, k, "")
    ELSE LET to == AccessorEnd(s, k)
             close == CloseOf(s, k)
             text == SubSeq(s, k + 1, close - 1)
             key == KeyText(s, k + 1, to)
         IN  IF v.t \notin {"Dict", "List"} THEN WalkFail("Primitive", k, to, "")
             ELSE IF v.t = "Dict" /\ s[k] = Ch.Open THEN WalkFail("Indexable", k, to, "")
             ELSE IF v.t = "List" /\ s[k] = Ch.Dot THEN WalkFail("Subscriptable", k, to, "")
             ELSE IF v.t = "Dict" THEN
                 IF BadEscape(s, k + 1, to) THEN WalkFail("Syntax", k, to, "escape")
                 ELSE IF EntryOf(v.c, key).t = "None"
                 THEN Walked("Key", None, k, to, key, 0, "")
                 ELSE Walk(EntryOf(v.c, key), s, to + 1)
             ELSE IF close = 0 THEN
                 (IF Ch.Minus \in {s[j] : j \in (k + 1)..Len(s)}
                  THEN WalkFail("SyntaxOrEnd", k, to, "minus")
                  ELSE WalkFail("End", k, to, ""))
             ELSE IF Ch.Minus \in {text[j] : j \in 1..Len(text)}
             THEN WalkFail("Syntax", k, to, "minus")
             ELSE IF text = <<>> \/ ~AllDigits(text) THEN WalkFail("Syntax", k, to, "number")
             ELSE IF ~(DecValue(StripZeros(text)) < Len(v.c))
             THEN Walked("Index", None, k, to, <<>>, DecValue(StripZeros(text)), "")
             ELSE Walk(v.c[DecValue(StripZeros(text)) + 1], s, to + 1)

\* what the selector language says of the call
Way == Walk(data, full_selector, 1)

\* select has returned
SelectReturned == trav = "Return"

(***************************************************************************)
(* select                                                                  *)
(***************************************************************************)
\* C11: for every Value V (Int, string, Dict or List), select(V, "")
\* returns Ok with V itself.
C11_EmptySelector ==
    SelectReturned /\ full_selector = <<>> => selected = SelectOk(data)

\* no character of the selector is a backslash
EscapeFree == \A k \in 1..Len(full_selector) : full_selector[k] # Ch.Escape

\* C12: for a container V and a selector that is a sequence of escape-free
\* `.key` and `[index]` accessors, each matching the kind of the node it is
\* applied to, with the key present or the index in range, select returns
\* Ok with the node reached by following the accessors from V in order.
C12_Follow ==
    SelectReturned /\ data.t \in {"Dict", "List"} /\ EscapeFree /\ Way.kind = "Ok"
        => selected = SelectOk(Way.value)

\* C13: when the next accessor starts with '[' and the current node is a
\* Dict, select returns SelectError::Indexable; when it starts with '.' and
\* the current node is a List, SelectError::Subscriptable.
C13_KindMismatch ==
    SelectReturned /\ Way.kind \in {"Indexable", "Subscriptable"}
        => selected.kind = Way.kind

\* C14: whenever an accessor is applied to a node that is an Int or a byte
\* string, at the root or after any number of successful accessors, select
\* returns SelectError::Primitive.
C14_Primitive ==
    SelectReturned /\ Way.kind = "Primitive" => selected.kind = "Primitive"

\* C15: select returns Err(Key(context, key)) when a key accessor names a
\* key absent from the current Dict and Err(Index(context, index)) when an
\* index accessor is not less than the length of the current List, as an
\* error value, wherever the accessor stands in the selector.
C15_Missing ==
    SelectReturned =>
        /\ Way.kind = "Key" => selected.kind = "Key" /\ selected.key = Way.key
        /\ Way.kind = "Index" => selected.kind = "Index" /\ selected.index = Way.index

\* the kinds of SelectError that carry a context
ContextKinds == {"Key", "Index", "Subscriptable", "Indexable", "Primitive", "Syntax"}

\* the prefix of the selector up to and including the failing accessor
FailingPrefix ==
    IF Way.to = 0 \/ full_selector = <<>> THEN ROOT ELSE SubSeq(full_selector, 1, Way.to)

\* C16: the context of a SelectError that carries one is the prefix of the
\* selector up to and including the failing accessor, "<root>" when that
\* prefix is empty.
C16_Context ==
    SelectReturned /\ selected.kind \in ContextKinds /\ Way.kind = selected.kind
        => selected.context = FailingPrefix

\* a backslash of the selector precedes a '.' or a '['
Escapes ==
    \E k \in 1..(Len(full_selector) - 1) :
        full_selector[k] = Ch.Escape /\ full_selector[k + 1] \in END_CHARS

\* C17: in a key accessor a backslash before '.' or '[' makes that character
\* a literal part of the key: `.a\.b` looks up the key `a.b`, the characters
\* after the escaped one still belong to the key, and the accessors after
\* the key are still parsed.
C17_Escape ==
    SelectReturned /\ Escapes /\ Way.kind = "Ok" => selected = SelectOk(Way.value)

\* C18: in a key accessor a backslash followed by a character other than
\* '.' and '[', or a backslash that is the last character of the selector,
\* makes select return SelectError::Syntax.
C18_BadEscape ==
    SelectReturned /\ Way.kind = "Syntax" /\ Way.why = "escape"
        => selected.kind = "Syntax"

\* C19: when the current node is a List, an index accessor that contains
\* '-' or whose text between '[' and ']' is not a decimal number makes
\* select return SelectError::Syntax, and an index accessor with no closing
\* ']' makes it return SelectError::End.
C19_BadIndex ==
    SelectReturned =>
        /\ Way.kind = "Syntax" /\ Way.why \in {"minus", "number"} => selected.kind = "Syntax"
        /\ Way.kind = "End" => selected.kind = "End"

FirstViolation ==
    IF Ref.st = "bad" THEN Ref.end
    ELSE IF Ref.st = "ok" /\ Ref.end <= Len(input) THEN Ref.end
    ELSE 0

\* C27: whenever load returns Syntax(offset, message), offset is the index
\* (from 0) of a byte of the input, no byte before it violates the grammar,
\* and the text shown to the user carries offset + 1.
C27_Offset ==
    Returned /\ result.kind = "Syntax" =>
        /\ 0 <= result.offset /\ result.offset < Len(input)
        /\ FirstViolation # 0 => result.offset + 1 <= FirstViolation
        /\ error_fmt(result)[2] = DecText(result.offset + 1)

\* load has returned twice on the same input: first read in chunks, then whole
Both == Done /\ first # Running

\* C28: for every input and every chunk size of at least 1 byte the result
\* of load (the Value, or the kind and the offset of the error) is the one
\* load gives when the whole input is read as a single chunk.
C28_Chunks ==
    Both /\ first.kind # "Panic" /\ result.kind # "Panic" =>
        /\ first.kind = result.kind
        /\ first.value = result.value
        /\ first.offset = result.offset

\* the four states a root value is finalised from
RootVals == {"RootValInt", "RootValStr", "RootValDict", "RootValList"}

\* load leaves its loop because the input is exhausted, and returns
Exhausted == pc = "loop" /\ ~(file_index + buf_index < file_size) /\ pc' = "done"

\* C29: when the input is exhausted load returns Eof if the return-state
\* stack is not empty; with an empty stack it returns a Value only from one
\* of the states RootValInt, RootValStr, RootValDict, RootValList, and
\* UnexpectedState from every other state.
C29_Exhausted ==
    [][Exhausted =>
        /\ next_state # <<>> => result' = Err("Eof")
        /\ next_state = <<>> /\ result'.kind = "Ok" => state \in RootVals
        /\ next_state = <<>> /\ state \notin RootVals => result' = Err("UnexpectedState")]_vars

\* the input ended inside an open dict and load returned Eof
C29_EofSeen ==
    /\ Done /\ result = Err("Eof")
    /\ file_index + buf_index >= file_size
    /\ next_state # <<>> /\ state = "DictKey"

\* C30: on every input that is a sentence of the grammar load returns
\* neither StackUnderflow nor UnexpectedState, and on no input at all does
\* it return StackUnderflow.
C30_NoUnderflow ==
    Done =>
        /\ result.kind # "StackUnderflow"
        /\ Sentence => result.kind # "UnexpectedState"

\* a sentence that holds a non-empty container has been decoded
C30_Decoded ==
    /\ Done /\ Sentence /\ result.kind = "Ok"
    /\ result.value.t \in {"Dict", "List"}
    /\ result.value.c # <<>>

(***************************************************************************)
(* The rendering                                                           *)
(***************************************************************************)
\* ValueDisplay::fmt has returned, and has left its loop by the loop's condition
Rendered == shown_all = "Done"

\* how many times the text pat stands in the text s
Occurrences(s, pat) ==
    Cardinality({k \in 1..(Len(s) - Len(pat) + 1) : SubSeq(s, k, k + Len(pat) - 1) = pat})

\* the children of a container
Children(v) == IF v.t = "Dict" THEN [k \in 1..Len(v.c) |-> ValOf(v.c[k])] ELSE v.c

NonEmptyContainer(v) == v.t \in {"Dict", "List"} /\ v.c # <<>>

\* the indices of the children of v that are non-empty containers
Inner(v) == {k \in 1..Len(Children(v)) : NonEmptyContainer(Children(v)[k])}

\* how many non-empty containers stand at the depth STACK_LIMIT among the
\* children ks of v and below them, the children of v being at depth d and
\* those of the root at depth 0: the ones a depth limit replaces by a
\* placeholder
RECURSIVE TooDeep(_, _, _)
TooDeep(v, d, ks) ==
    IF ks = {} THEN 0
    ELSE LET k == CHOOSE x \in ks : TRUE
         IN  (IF d >= STACK_LIMIT THEN 1
              ELSE TooDeep(Children(v)[k], d + 1, Inner(Children(v)[k])))
             + TooDeep(v, d, ks \ {k})

\* C24: a non-empty container child is rendered as the placeholder {...} or
\* [...] if and only if its nesting depth is at least 5; every non-empty
\* container at a smaller depth is rendered in full, however many containers
\* were rendered before it.
C24_DepthLimit ==
    Rendered /\ shown.t \in {"Dict", "List"} =>
        Occurrences(out, <<91, 46, 46, 46, 93>>) + Occurrences(out, <<123, 46, 46, 46, 125>>)
            = TooDeep(shown, 0, Inner(shown))

\* fmt has returned: the value is rendered, or the loop was left at the limit
Shown == shown_all \in {"Done", "Break"}

\* the output ends with the truncation marker
Truncated ==
    /\ Len(out) >= Len(TRUNCATING)
    /\ SubSeq(out, Len(out) - Len(TRUNCATING) + 1, Len(out)) = TRUNCATING

\* C25: fmt never runs its main loop more than RUN_LIMIT times, and once it
\* has returned its output ends with the truncation marker exactly when the
\* traversal had not reached its Done state, that is when the rendering was
\* not complete.
C25_StepLimit ==
    /\ runs <= RUN_LIMIT
    /\ Shown => (Truncated <=> show # "Done")

\* how many non-empty containers v holds, itself included
RECURSIVE Containers(_)
RECURSIVE ContainersIn(_, _)
ContainersIn(v, ks) ==
    IF ks = {} THEN 0
    ELSE LET k == CHOOSE x \in ks : TRUE
         IN  Containers(Children(v)[k]) + ContainersIn(v, ks \ {k})

Containers(v) == 1 + ContainersIn(v, Inner(v))

\* the texts parts[1], parts[2], ... with ", " between every two of them
Separated(parts) ==
    Flat([k \in 1..Len(parts) |->
             parts[k] \o (IF k < Len(parts) THEN <<44, 32>> ELSE <<>>)], 1, Len(parts))

\* the rendering of v inside containers at indentation level ind when no
\* limit applies: a List is its elements between brackets with ", " between
\* every two of them, a Dict is one line for every entry
RECURSIVE Laid(_, _)
Laid(v, ind) ==
    IF v.t \in {"Int", "Str", "Bytes"} THEN fmt_primitive(v, 8)
    ELSE IF v.t = "List"
         THEN <<91>> \o Separated([k \in 1..Len(v.c) |-> Laid(v.c[k], ind)]) \o <<93>>
    ELSE IF v.c = <<>> THEN <<123, 125>>
    ELSE <<123, 10>>
         \o Flat([k \in 1..Len(v.c) |->
                     Spaces((ind + 1) * indent_size) \o fmt_primitive(KeyOf(v.c[k]), 32)
                     \o <<58, 32>> \o Laid(ValOf(v.c[k]), ind + 1) \o <<44, 10>>],
                 1, Len(v.c))
         \o Spaces(ind * indent_size) \o <<125>>

\* C26: the complete rendering of a List that no limit cuts short is its
\* elements between brackets, with exactly one ", " between every two
\* consecutive elements and none after the last, whatever the elements are.
C26_Separators ==
    Rendered /\ shown.t = "List" /\ Containers(shown) <= STACK_LIMIT + 1 => out = Laid(shown, 0)

(***************************************************************************)
(* The session (interactive.rs): interactive_cmd on the State of the       *)
(* session. select is the code of benc.rs; select_mut, insert, remove and  *)
(* push of Value and the parser of literals are not among the sources and  *)
(* are modelled from the specification (4.4, 4.5, 6.3)                     *)
(***************************************************************************)
\* how many commands a session of the model enters from its first prompt on
MaxCommands == 1

\* Result<bool, CmdError>: Ok(true), Ok(false) as Quit, or the CmdError, with
\* the call that failed
CmdResult(kind, why) == [kind |-> kind, why |-> why]

CmdOk == CmdResult("Ok", "")

\* args.last_mut().unwrap().extend(..)
Extended(acc, text) == [acc EXCEPT ![Len(acc)] = @ \o text]

\* the loop of parse_args at (i, c)
RECURSIVE ArgLoop(_, _, _, _, _, _)
ArgLoop(argbuf, i, acc, escaped, quoted, left) ==
    IF i >= Len(argbuf) THEN
        IF quoted THEN [kind |-> "ArgEOL", args |-> <<>>]
        ELSE IF escaped THEN [kind |-> "ArgTrailingEscape", args |-> <<>>]
        ELSE [kind |-> "Ok", args |-> Extended(acc, SubSeq(argbuf, left + 1, Len(argbuf)))]
    ELSE LET c == argbuf[i + 1]
             piece == SubSeq(argbuf, left + 1, i)
         IN  IF c = 32 /\ ~quoted THEN
                  ArgLoop(argbuf, i + 1, Append(Extended(acc, piece), <<>>), escaped, quoted, i + 1)
             ELSE IF c = 34 THEN
                  IF escaped THEN ArgLoop(argbuf, i + 1, acc, FALSE, quoted, left)
                  ELSE ArgLoop(argbuf, i + 1, Extended(acc, piece), escaped, ~quoted, i + 1)
             ELSE IF c = 92 THEN
                  IF escaped THEN ArgLoop(argbuf, i + 1, acc, FALSE, quoted, left)
                  ELSE ArgLoop(argbuf, i + 1, Extended(acc, piece), TRUE, quoted, i + 1)
             ELSE IF escaped THEN
                  IF c = 110 THEN ArgLoop(argbuf, i + 1, Extended(acc, <<10>>), FALSE, quoted, i + 1)
                  ELSE [kind |-> "ArgUnknownEscape", args |-> <<>>]
             ELSE ArgLoop(argbuf, i + 1, acc, escaped, quoted, left)

\* fn parse_args
parse_args(argbuf) ==
    IF Len(argbuf) > 0 THEN ArgLoop(argbuf, 0, << <<>> >>, FALSE, FALSE, 0)
    ELSE [kind |-> "Ok", args |-> <<>>]

\* the literals the parser of literals accepts, with the Value of each:
\* 0  -1  []  {}  [0]  [[0]]  [0,-1]
Literals ==
    {[text |-> <<48>>, value |-> IntV(<<48>>)],
     [text |-> <<45, 49>>, value |-> IntV(<<45, 49>>)],
     [text |-> <<91, 93>>, value |-> ListV(<<>>)],
     [text |-> <<123, 125>>, value |-> DictV(<<>>)],
     [text |-> <<91, 48, 93>>, value |-> ListV(<<IntV(<<48>>)>>)],
     [text |-> <<91, 91, 48, 93, 93>>, value |-> ListV(<<ListV(<<IntV(<<48>>)>>)>>)],
     [text |-> <<91, 48, 44, 45, 49, 93>>, value |-> SmallList]}

\* BencValue::deserialize_json
deserialize_json(text) ==
    IF \E l \in Literals : l.text = text
    THEN [ok |-> TRUE, value |-> (CHOOSE l \in Literals : l.text = text).value]
    ELSE [ok |-> FALSE, value |-> None]

\* the node of v at the end of a path of child positions
RECURSIVE At(_, _)
At(v, path) == IF path = <<>> THEN v ELSE At(Children(v)[Head(path)], Tail(path))

\* v with the node at the end of the path replaced
RECURSIVE Replaced(_, _, _)
Replaced(v, path, new) ==
    IF path = <<>> THEN new
    ELSE [v EXCEPT !.c[Head(path)] =
              IF v.t = "Dict" THEN Entry(KeyOf(@), Replaced(ValOf(@), Tail(path), new))
              ELSE Replaced(@, Tail(path), new)]

\* the child positions that the accessors of s from k on lead through
RECURSIVE PathOf(_, _, _)
PathOf(v, s, k) ==
    IF k > Len(s) THEN <<>>
    ELSE LET to == AccessorEnd(s, k)
             pos == IF v.t = "Dict"
                    THEN CHOOSE j \in 1..Len(v.c) : KeyOf(v.c[j]).b = KeyText(s, k + 1, to)
                    ELSE DecValue(StripZeros(SubSeq(s, k + 1, to - 1))) + 1
         IN  <<pos>> \o PathOf(Children(v)[pos], s, to + 1)

\* Value::select_mut: the contract of select, with the place of the node in
\* the tree for a mutable binding
select_mut(root, s) ==
    IF Walk(root, s, 1).kind = "Ok" THEN [kind |-> "Ok", path |-> PathOf(root, s, 1)]
    ELSE [kind |-> Walk(root, s, 1).kind, path |-> <<>>]

\* ValueAccessor
Key(text) == [kind |-> "Key", key |-> text, index |-> 0]

Index(n) == [kind |-> "Index", key |-> <<>>, index |-> n]

\* Result<(), UpdateError> with the node after the call
Updated(v) == [ok |-> TRUE, value |-> v]

UpdateError == [ok |-> FALSE, value |-> None]

\* Value::insert
insert(node, a, v) ==
    IF a.kind = "Key" THEN
        IF node.t = "Dict" THEN Updated(DictV(MapInsert(node.c, StrV(a.key), v)))
        ELSE UpdateError
    ELSE IF node.t = "List" /\ a.index <= Len(node.c)
    THEN Updated(ListV(SubSeq(node.c, 1, a.index) \o <<v>> \o Drop(node.c, a.index)))
    ELSE UpdateError

\* Value::push
push(node, v) == IF node.t = "List" THEN Updated(ListV(Append(node.c, v))) ELSE UpdateError

\* Value::remove
remove(node, a) ==
    IF a.kind = "Key" THEN
        IF node.t = "Dict"
        THEN Updated(DictV(SelectSeq(node.c, LAMBDA e : KeyOf(e).b # a.key)))
        ELSE UpdateError
    ELSE IF node.t = "List" /\ 0 < a.index /\ a.index < Len(node.c)
    THEN Updated(ListV(SubSeq(node.c, 1, a.index) \o Drop(node.c, a.index + 1)))
    ELSE UpdateError

\* the arms of the match of "clear" for a Dict and a List alone
cleared_containers(v) ==
    CASE v.t = "Dict" -> DictV(<<>>)
      [] v.t = "List" -> ListV(<<>>)
      [] OTHER -> v

\* the arms of the match of "clear"
cleared(v) ==
    CASE v.t = "Dict" -> DictV(<<>>)
      [] v.t = "List" -> ListV(<<>>)
      [] v.t = "Str" -> StrV(<<>>)
      [] v.t = "Bytes" -> BytesV(<<>>)
      [] OTHER -> IntV(<<48>>)

\* [[], [0]]
EmptyAndOne == ListV(<<ListV(<<>>), ListV(<<IntV(<<48>>)>>)>>)

\* the trees of the sessions of the model
ReplValues ==
    {IntV(<<48>>), DictV(<<>>), ListV(<<>>), SmallDict, SmallList, EmptyAndOne, MixedList}

\* what load makes of the file when "reload" reads it
Reloaded == {SmallDict, ListV(<<>>)}

\* the selectors as they are typed: ""  .a  .b  [0]  [1]  [0][0]  .a[0]  .x
\* [9]  [+0]
TypedSelectors ==
    {<<34, 34>>, <<46, 97>>, <<46, 98>>, <<91, 48, 93>>, <<91, 49, 93>>,
     <<91, 48, 93, 91, 48, 93>>, <<46, 97, 91, 48, 93>>, <<46, 120>>, <<91, 57, 93>>,
     <<91, 43, 48, 93>>}

\* the literals as they are typed, and x, which is none
TypedLiterals == {l.text : l \in Literals} \cup {<<120>>}

\* a  0  9
TypedKeys == {<<97>>, <<48>>, <<57>>}

\* 0  []  x
FewLiterals == {<<48>>, <<91, 93>>, <<120>>}

\* "  \  \x  a b c d
BadBufs == {<<34>>, <<92>>, <<92, 120>>, <<97, 32, 98, 32, 99, 32, 100>>}

\* the words of an argument buffer with one space between them
Typed(words) == Flat([k \in 1..Len(words) |->
                         words[k] \o (IF k < Len(words) THEN <<32>> ELSE <<>>)],
                     1, Len(words))

CommandNames ==
    {"show", "set", "reload", "save", "save-as", "clear", "remove", "insert", "append",
     "quit", "exit", "q", "help"}

\* the argument buffers a command of the model is entered with
ArgBufs(c) ==
    BadBufs \cup
    CASE c \in {"show", "clear", "remove"} -> TypedSelectors \cup {<<>>}
      [] c = "set" -> {Typed(<<s, l>>) : s \in TypedSelectors, l \in TypedLiterals}
      [] c = "append" -> {Typed(<<s, l>>) : s \in TypedSelectors, l \in FewLiterals}
      [] c = "insert" ->
             {Typed(<<s, k, l>>) : s \in TypedSelectors, k \in TypedKeys,
                                   l \in {<<48>>, <<120>>}}
      [] c = "save-as" -> {<<97>>}
      [] OTHER -> {<<>>}

\* hash_value of a Value, as the calls of "set" use it
hash_of(v) == {finish(Hashed(hasher, v)) : hasher \in DefaultHasher_new}

\* the loop of interactive goes on
NotEnded == [how |-> "none", wrote |-> FALSE]

\* the loop was left: by the break after "quit", by the break at the end of
\* input ("eof"), by the break after another error of readline ("error"), or
\* by a return with an Error ("failed")
Ended(how, wrote) == [how |-> how, wrote |-> wrote]

\* nothing was asked and no file was written
Quiet == answer' = "none" /\ UNCHANGED written

\* prompt_confirm returned confirm
Asked(confirm) == answer' = IF confirm THEN "yes" ELSE "no"

\* File::create(path) and encode(&mut file) succeeded
Wrote == written' = written + 1

\* the end of interactive_cmd: what it returns and the State it leaves
Reply(r, tree, flag) ==
    /\ returned' = r
    /\ state_data' = tree
    /\ state_changed' = flag
    /\ cmd' = ""
    /\ args' = <<>>

\* a return that sets state.changed on its way
BackChanged(r) == Reply(r, state_data, TRUE)

\* return Err(..), and every return that leaves the State alone
Back(r) == Reply(r, state_data, state_changed)

\* the call of select on state.data, from where interactive_cmd goes on
\* when select has returned
CallSelect(c, a, s) ==
    /\ cmd' = c
    /\ args' = a
    /\ data' = state_data
    /\ full_selector' = s
    /\ selector' = s
    /\ trav' = "Call"
    /\ current' = None
    /\ value' = None
    /\ selected' = NotSelected
    /\ UNCHANGED <<state_data, state_changed, returned>>

\* args.iter().next().map(|s| s.as_str()).unwrap_or("")
FirstOr(a) == IF a = <<>> THEN <<>> ELSE a[1]

\* "clear"
Clear(a) ==
    IF Len(a) > 1 THEN Back(CmdResult("ArgCountMax", ""))
    ELSE LET m == select_mut(state_data, FirstOr(a))
         IN  IF m.kind # "Ok" THEN Back(CmdResult("Command", "select"))
             ELSE Reply(CmdOk, Replaced(state_data, m.path, cleared(At(state_data, m.path))), TRUE)

\* "insert"
Insert(a) ==
    IF Len(a) # 3 THEN Back(CmdResult("ArgCount", ""))
    ELSE LET m == select_mut(state_data, a[1])
             lit == deserialize_json(a[3])
             acc == IF ParseUsize(a[2]).ok THEN Index(ParseUsize(a[2]).n) ELSE Key(a[2])
         IN  IF m.kind # "Ok" THEN Back(CmdResult("Command", "select"))
             ELSE IF ~lit.ok THEN Back(CmdResult("Command", "literal"))
             ELSE IF ~insert(At(state_data, m.path), acc, lit.value).ok
             THEN Back(CmdResult("Command", "update"))
             ELSE Reply(CmdOk,
                        Replaced(state_data, m.path,
                            insert(At(state_data, m.path), acc, lit.value).value),
                        TRUE)

\* "append"
AppendTo(a) ==
    IF Len(a) # 2 THEN Back(CmdResult("ArgCount", ""))
    ELSE LET m == select_mut(state_data, a[1])
             lit == deserialize_json(a[2])
         IN  IF m.kind # "Ok" THEN Back(CmdResult("Command", "select"))
             ELSE IF At(state_data, m.path).t # "List" THEN Back(CmdResult("Command", "list"))
             ELSE IF ~lit.ok THEN Back(CmdResult("Command", "literal"))
             ELSE IF ~push(At(state_data, m.path), lit.value).ok
             THEN Back(CmdResult("Command", "update"))
             ELSE Reply(CmdOk,
                        Replaced(state_data, m.path, push(At(state_data, m.path), lit.value).value),
                        TRUE)

\* "reload": the answer to the prompt, and what load makes of the file
Reload(a) ==
    IF Len(a) # 0 THEN Back(CmdResult("ArgCount", "")) /\ Quiet
    ELSE \/ /\ state_changed
            /\ Back(CmdResult("Io", "")) /\ answer' = "error" /\ UNCHANGED written
         \/ \E confirm \in IF state_changed THEN BOOLEAN ELSE {TRUE} :
                /\ IF state_changed THEN Asked(confirm) ELSE answer' = "none"
                /\ UNCHANGED written
                /\ IF ~confirm THEN Back(CmdOk)
                   ELSE \/ \E v \in Reloaded : Reply(CmdOk, v, FALSE)
                        \/ Back(CmdResult("Command", "load"))

\* a "save" that writes the file and leaves state.changed as it is
SaveKeepsFlag ==
    /\ answer' = "none"
    /\ IF ~state_changed THEN Back(CmdOk) /\ UNCHANGED written
       ELSE \/ Back(CmdResult("Io", "")) /\ UNCHANGED written
            \/ Back(CmdOk) /\ Wrote

\* "save": the file is created and written, or an operation on it fails
Save ==
    /\ answer' = "none"
    /\ IF ~state_changed THEN Back(CmdOk) /\ UNCHANGED written
       ELSE \/ Back(CmdResult("Io", "")) /\ UNCHANGED written
            \/ Reply(CmdOk, state_data, FALSE) /\ Wrote

\* "save-as"
SaveAs(a) ==
    IF Len(a) # 1 THEN Back(CmdResult("ArgCount", "")) /\ Quiet
    ELSE \/ Back(CmdResult("Io", "")) /\ answer' = "error" /\ UNCHANGED written
         \/ \E exists \in BOOLEAN, confirm \in BOOLEAN :
                /\ exists \/ confirm
                /\ IF exists THEN Asked(confirm) ELSE answer' = "none"
                /\ IF ~confirm THEN Back(CmdOk) /\ UNCHANGED written
                   ELSE \/ Back(CmdResult("Io", "")) /\ UNCHANGED written
                        \/ Reply(CmdOk, state_data, FALSE) /\ Wrote

\* interactive_cmd is called with a command and its argument buffer, up to
\* the return or to the call of select
interactive_cmd ==
    /\ cmd = "" /\ state_data.t # "None"
    /\ ending.how = "none"
    /\ returned.kind \notin {"Quit", "Panic"}
    /\ commands < MaxCommands
    /\ commands' = commands + 1
    /\ \E c \in CommandNames :
       \E argbuf \in ArgBufs(c) :
           LET parsed == parse_args(argbuf)
               a == parsed.args
           IN  /\ prior' = [data |-> state_data, changed |-> state_changed, cmd |-> c,
                            args |-> a, written |-> written]
               \* Ok(keep_running) => if !keep_running { break; }
               /\ ending' = IF parsed.kind = "Ok" /\ c \in {"quit", "exit", "q"}
                            THEN Ended("quit", FALSE) ELSE ending
               /\ IF parsed.kind # "Ok"
                  THEN Back(CmdResult(parsed.kind, "")) /\ Quiet /\ UNCHANGED sel
                  ELSE CASE c = "show" ->
                                /\ Quiet
                                /\ IF Len(a) > 1
                                   THEN Back(CmdResult("ArgCountMax", "")) /\ UNCHANGED sel
                                   ELSE CallSelect(c, a, FirstOr(a))
                         [] c = "set" ->
                                /\ Quiet
                                /\ IF Len(a) # 2
                                   THEN Back(CmdResult("ArgCount", "")) /\ UNCHANGED sel
                                   ELSE CallSelect(c, a, a[1])
                         [] c = "remove" ->
                                /\ Quiet
                                /\ IF Len(a) # 1
                                   THEN Back(CmdResult("ArgCount", "")) /\ UNCHANGED sel
                                   ELSE CallSelect(c, a, a[1])
                         [] c = "clear" -> Clear(a) /\ Quiet /\ UNCHANGED sel
                         [] c = "insert" -> Insert(a) /\ Quiet /\ UNCHANGED sel
                         [] c = "append" -> AppendTo(a) /\ Quiet /\ UNCHANGED sel
                         [] c = "reload" -> Reload(a) /\ UNCHANGED sel
                         [] c = "save" -> Save /\ UNCHANGED sel
                         [] c = "save-as" -> SaveAs(a) /\ UNCHANGED sel
                         [] c \in {"quit", "exit", "q"} ->
                                Back(CmdResult("Quit", "")) /\ Quiet /\ UNCHANGED sel
                         [] OTHER ->
                                Back(CmdResult("UnknownCommand", "")) /\ Quiet /\ UNCHANGED sel
    /\ UNCHANGED <<loadvars, hsh, dsp>>

\* the arms of the loop of interactive that call no command: readline
\* returns Interrupted (or a blank line), the end of input, or another error
readline ==
    /\ cmd = "" /\ state_data.t # "None"
    /\ ending.how = "none"
    /\ returned.kind # "Panic"
    /\ \E r \in {"Interrupted", "Eof", "Error"} :
          CASE r = "Interrupted" -> UNCHANGED <<answer, written, ending>>
            [] r = "Error" -> ending' = Ended("error", FALSE) /\ Quiet
            [] OTHER ->
                  IF ~state_changed THEN ending' = Ended("eof", FALSE) /\ Quiet
                  ELSE \/ answer' = "error" /\ ending' = Ended("failed", FALSE)
                          /\ UNCHANGED written
                       \/ answer' = "no" /\ ending' = Ended("eof", FALSE)
                          /\ UNCHANGED written
                       \/ answer' = "yes" /\ ending' = Ended("failed", FALSE)
                          /\ UNCHANGED written
                       \/ answer' = "yes" /\ ending' = Ended("eof", TRUE) /\ Wrote
    /\ UNCHANGED <<loadvars, sel, hsh, dsp, state_data, state_changed, cmd, args, returned,
                   prior, commands>>

\* State::new: the file is loaded into state.data, or interactive returns
\* the Error of reload_data
State_new ==
    /\ state_data.t = "None" /\ ending.how = "none" /\ pc = "idle"
    /\ \/ /\ state_data' \in ReplValues
          /\ state_changed' = FALSE
          /\ UNCHANGED ending
       \/ /\ ending' = Ended("failed", FALSE)
          /\ UNCHANGED <<state_data, state_changed>>
    /\ UNCHANGED <<loadvars, sel, hsh, dsp, cmd, args, returned, prior, commands, answer,
                   written>>

\* "set" after select has returned Ok
Set ==
    LET m == select_mut(state_data, args[1])
        lit == deserialize_json(args[2])
    IN  IF m.kind # "Ok" THEN Back(CmdResult("Command", "select"))
        ELSE IF ~lit.ok THEN Back(CmdResult("Command", "literal"))
        ELSE \E old_hash \in hash_of(selected.value), new_hash \in hash_of(lit.value) :
                 Reply(CmdOk, Replaced(state_data, m.path, lit.value),
                       IF new_hash # old_hash THEN TRUE ELSE state_changed)

\* the position of the last '.' or '[' of a selector, 0 for none
RFind(s) ==
    LET at == {k \in 1..Len(s) : s[k] \in END_CHARS}
    IN  IF at = {} THEN 0 ELSE CHOOSE k \in at : \A j \in at : j <= k

\* "remove" after select has returned Ok
Remove ==
    LET i == RFind(args[1])
        parent_selector == IF i = 0 THEN <<>> ELSE SubSeq(args[1], 1, i - 1)
        child_selector == IF i = 0 THEN <<>> ELSE Drop(args[1], i - 1)
        m == select_mut(state_data, parent_selector)
        index == ParseUsize(SubSeq(child_selector, 2, Len(child_selector) - 1))
        acc == IF child_selector # <<>> /\ Head(child_selector) = Ch.Dot
               THEN Key(Tail(child_selector)) ELSE Index(index.n)
    IN  IF m.kind # "Ok" THEN Back(CmdResult("Command", "select"))
        ELSE IF child_selector = <<>> \/ (Head(child_selector) # Ch.Dot /\ ~index.ok)
        THEN Back(CmdResult("Panic", ""))
        ELSE IF ~remove(At(state_data, m.path), acc).ok
        THEN Back(CmdResult("Command", "update"))
        ELSE Reply(CmdOk, Replaced(state_data, m.path, remove(At(state_data, m.path), acc).value),
                   TRUE)

\* interactive_cmd from the return of select on: "show", "set" and "remove"
Selected ==
    /\ cmd # "" /\ trav = "Return"
    /\ trav' = "Idle"
    /\ IF selected.kind = "Panic" THEN Back(CmdResult("Panic", ""))
       ELSE IF selected.kind # "Ok" THEN Back(CmdResult("Command", "select"))
       ELSE CASE cmd = "set" -> Set
              [] cmd = "remove" -> Remove
              [] OTHER -> Back(CmdOk)
    /\ UNCHANGED <<loadvars, hsh, dsp, prior, commands, answer, written, ending, data,
                   full_selector, selector, current, value, selected>>

\* interactive is entered, or its prompt waits for a command: State::new
\* has loaded the file, and the commands entered so far have set
\* state.changed or have not
InitRepl ==
    /\ input = <<>> /\ other = <<>> /\ first = Running /\ chunk = CHUNK_SIZE
    /\ pc = "idle" /\ result = Running
    /\ Fresh
    /\ data = None
    /\ full_selector = <<>>
    /\ selector = <<>>
    /\ trav = "Idle"
    /\ current = None
    /\ value = None
    /\ selected = NotSelected
    /\ NoHash
    /\ NoDisplay
    /\ \/ state_data = None /\ state_changed = FALSE
       \/ state_data \in ReplValues /\ state_changed \in BOOLEAN
    /\ cmd = ""
    /\ args = <<>>
    /\ returned = CmdResult("None", "")
    /\ prior = [data |-> None, changed |-> FALSE, cmd |-> "", args |-> <<>>, written |-> 0]
    /\ commands = 0
    /\ answer = "none"
    /\ written = 0
    /\ ending = NotEnded

NextRepl ==
    \/ State_new
    \/ interactive_cmd
    \/ readline
    \/ select
    \/ TraverseRoot \/ TraverseDict \/ TraverseList \/ TraverseDone
    \/ Selected

SpecRepl == InitRepl /\ [][NextRepl]_vars

(***************************************************************************)
(* The commands of the session                                             *)
(***************************************************************************)
\* the last command was c and returned Ok(true)
Succeeded(c) == cmd = "" /\ prior.cmd = c /\ returned = CmdOk

\* the node a selector addresses in a tree, by the selector language
Addressed(tree, s) == Walk(tree, s, 1).value

\* C21: after a successful set the node at the selector is the Value of the
\* literal; changed is true when that Value differs from the one that was
\* there, and is what it was before when the two are equal.
C21_Set ==
    Succeeded("set") =>
        LET old == Addressed(prior.data, prior.args[1])
            new == deserialize_json(prior.args[2]).value
        IN  /\ Addressed(state_data, prior.args[1]) = new
            /\ new # old => state_changed
            /\ new = old => state_changed = prior.changed

\* interactive_cmd returned a CmdError
Refused ==
    /\ cmd = ""
    /\ returned.kind \in {"Io", "UnknownCommand", "Command", "ArgUnknownEscape",
                          "ArgTrailingEscape", "ArgEOL", "ArgCount", "ArgCountMin",
                          "ArgCountMax"}

\* C22: when a command returns an error the tree and the changed flag of the
\* session are what they were as the command was entered.
C22_ErrorKeeps == Refused => state_data = prior.data /\ state_changed = prior.changed

\* C22 witness: a command fails in a mutation primitive, in a session with
\* unsaved changes
C22_Refused ==
    /\ Refused /\ returned.why = "update"
    /\ prior.changed /\ prior.cmd \in {"insert", "remove"}

\* the empty value of the kind of v
EmptyOf(v) ==
    CASE v.t = "Dict" -> DictV(<<>>)
      [] v.t = "List" -> ListV(<<>>)
      [] v.t = "Str" -> StrV(<<>>)
      [] v.t = "Bytes" -> BytesV(<<>>)
      [] v.t = "Int" -> IntV(<<48>>)

\* the selectors of the model as select_mut is handed them
Untyped == {parse_args(s).args[1] : s \in TypedSelectors}

\* the selectors that lead into the subtree at s or through it
Within(s) == {t \in Untyped : Len(t) >= Len(s) /\ SubSeq(t, 1, Len(s)) = s}

\* the selectors on the way to s
Above(s) == {t \in Untyped : Len(t) < Len(s) /\ SubSeq(s, 1, Len(t)) = t}

\* C23: after a successful clear the node at the selector is the empty value
\* of the kind it had, changed is true, and every selector that does not lead
\* to the node, into it or through it gives what it gave before.
C23_Clear ==
    Succeeded("clear") =>
        LET s == FirstOr(prior.args)
        IN  /\ Addressed(state_data, s) = EmptyOf(Addressed(prior.data, s))
            /\ state_changed
            /\ \A t \in Untyped \ (Within(s) \cup Above(s)) :
                   Walk(state_data, t, 1) = Walk(prior.data, t, 1)
            /\ \A t \in Above(s) :
                   /\ Walk(state_data, t, 1).kind = "Ok"
                   /\ Addressed(state_data, t).t = Addressed(prior.data, t).t
                   /\ Len(Addressed(state_data, t).c) = Len(Addressed(prior.data, t).c)

\* C23 witness: a Dict with entries inside a List was cleared
C23_Cleared ==
    /\ Succeeded("clear") /\ prior.args # <<>>
    /\ Addressed(prior.data, prior.args[1]).t = "Dict"
    /\ Addressed(prior.data, prior.args[1]).c # <<>>
    /\ prior.data.t = "List"

(***************************************************************************)
(* The depth counters and the stacks they index                            *)
(***************************************************************************)
\* C32: dict_i and list_i never leave the range of an i8 whatever the
\* nesting: load of more than 128 nested dicts or lists returns a Value or
\* an Error, and no counter has wrapped below -1 on the way.
C32_DepthCounters ==
    /\ (Done /\ input \in DeepInputs) => result.kind # "Panic"
    /\ dict_i >= -1 /\ list_i >= -1

\* C40: at the start of every iteration of the loop dict_i + 1 is the length
\* of dict_stack, key_stack and val_stack, and list_i + 1 the length of
\* list_stack and item_stack.
C40_Aligned ==
    InLoop =>
        /\ dict_i + 1 = Len(dict_stack)
        /\ Len(key_stack) = Len(dict_stack) /\ Len(val_stack) = Len(dict_stack)
        /\ list_i + 1 = Len(list_stack)
        /\ Len(item_stack) = Len(list_stack)

(***************************************************************************)
(* The stacks and the nesting depth                                        *)
(***************************************************************************)
\* the containers the first k bytes of the input open and do not close:
\* the scan is at byte p with d containers open. Nothing after the end of
\* the root value, and nothing after a byte no value starts with, counts.
RECURSIVE Opened(_, _, _)
Opened(p, d, k) ==
    IF p > k \/ (d = 0 /\ p > 1) THEN d
    ELSE IF input[p] \in {Token.Dict, Token.List} THEN Opened(p + 1, d + 1, k)
    ELSE IF input[p] = Token.End THEN Opened(p + 1, d - 1, k)
    ELSE IF input[p] = Token.Int THEN
         LET q == Span(input, p + 1, CHARS)
         IN  IF q > k \/ input[q] # Token.End THEN d ELSE Opened(q + 1, d, k)
    ELSE IF input[p] \in Digits THEN
         LET q == Span(input, p, Digits)
         IN  IF q > k \/ input[q] # Token.Colon THEN d
             ELSE Opened(q + 1 + DecValue(SubSeq(input, p, q - 1)), d, k)
    ELSE d

\* the nesting depth of the node being built when real_index bytes are read
Depth == Opened(1, 0, real_index)

\* the states in which a finished container is about to leave its stack
Closing == {"RootValDict", "RootValList", "DictValDict", "DictValList",
            "ListValDict", "ListValList"}

\* C31 as stated: while load runs, dict_stack and list_stack together hold
\* as many entries as the node being built is deep, and next_state holds one
\* more (from the first byte on, which pushes the return of the root).
C31_DepthPlusOne ==
    (InLoop /\ state # "Root") =>
        /\ Len(dict_stack) + Len(list_stack) = Depth
        /\ Len(next_state) = Depth + 1

\* the entries of next_state that are not the return of an open container:
\* one while an integer or a string is read, two while the length of a
\* string is read, none between values
Pending ==
    IF state = "Int" /\ next_state # <<>> /\ next_state[Len(next_state)] = "Str" THEN 2
    ELSE IF state \in {"Int", "Str", "StrRem"} THEN 1
    ELSE 0

\* C31 amended: dict_stack and list_stack together hold one entry per open
\* container, the container whose end was just read included until its
\* closing state has run; next_state holds one entry per open container, and
\* one or two more only while an integer or a string is read.
C31_Stacks ==
    InLoop =>
        /\ Len(dict_stack) + Len(list_stack)
               = Depth + (IF state \in Closing THEN 1 ELSE 0)
        /\ Len(next_state) = Depth + Pending

\* C31 witness: a key of a dict inside a list is being read
C31_Nested ==
    /\ InLoop /\ state = "Str"
    /\ Len(dict_stack) = 1 /\ Len(list_stack) = 1
    /\ Len(next_state) = 3

(***************************************************************************)
(* The range of an integer                                                 *)
(***************************************************************************)
\* the magnitude of an integer body, without its sign and leading zeros
Magnitude(body) == StripZeros(IF body[1] = 45 THEN Tail(body) ELSE body)

\* the number the body denotes is at least -2^63 and less than 2^63
FitsI64(body) ==
    LET m == Magnitude(body)
        top == IF body[1] = 45 THEN I64MinMagText ELSE I64MaxText
    IN  Len(m) < Len(top) \/ (Len(m) = Len(top) /\ ~LexLess(top, m))

\* the decimal text of the number the body denotes
Denoted(body) ==
    IF body[1] = 45 /\ Magnitude(body) # <<48>> THEN <<45>> \o Magnitude(body)
    ELSE Magnitude(body)

\* the Value that the frame f puts around the integer n
Framed(f, n) ==
    IF f[1][1] = Token.Int THEN n
    ELSE IF f[1][1] = Token.Dict THEN DictV(<<Entry(StrV(<<97>>), n)>>)
    ELSE IF f = Across THEN ListV([k \in 1..(Filler + 1) |-> IF k <= Filler THEN IntV(<<48>>) ELSE n])
    ELSE ListV(<<n>>)

\* C36: load of an integer literal of at most MAX_INT_BUF characters returns
\* Int(n) for the n its text denotes when -2^63 <= n < 2^63, and a Syntax
\* error otherwise.
C36_IntRange ==
    \A c \in IntCases :
        (Done /\ input = c[1][1] \o c[2] \o c[1][2]) =>
            IF FitsI64(c[2]) THEN result = Ok(Framed(c[1], IntV(Denoted(c[2]))))
            ELSE result.kind = "Syntax" /\ result.msg = "Invalid integer"

\* C36 witness: 2^63 in a list was refused, read in chunks that cut its
\* digits
C36_OnePast ==
    /\ Done /\ chunk = SmallChunk
    /\ input = <<Token.List, Token.Int>> \o I64MinMagText \o <<Token.End, Token.End>>
    /\ result.kind = "Syntax"

(***************************************************************************)
(* A key that occurs more than once                                        *)
(***************************************************************************)
\* the values of the entries of the Dict d under the key k
Under(d, k) == {i \in 1..Len(d.c) : KeyOf(d.c[i]) = k}

\* C37: load of a dict that holds a key more than once succeeds, and the
\* Dict has one entry for the key, with the value of its last occurrence.
C37_LastWins ==
    \A c \in DupCases :
        (Done /\ input = c.in) =>
            /\ result.kind = "Ok" /\ result.value.t = "Dict"
            /\ Cardinality(Under(result.value, c.key)) = 1
            /\ \A i \in Under(result.value, c.key) : ValOf(result.value.c[i]) = c.last

\* the same, for the keys that are not empty
C37_NonEmptyKeys ==
    \A c \in DupCases :
        (Done /\ input = c.in /\ c.key.b # <<>>) =>
            /\ result.kind = "Ok" /\ result.value.t = "Dict"
            /\ Cardinality(Under(result.value, c.key)) = 1
            /\ \A i \in Under(result.value, c.key) : ValOf(result.value.c[i]) = c.last

(***************************************************************************)
(* The Value load returns                                                  *)
(***************************************************************************)
\* v holds, at every depth, only Int, Str, Bytes, Dict and List nodes, no
\* reference to a cell of the decoder, and only Str and Bytes as keys
RECURSIVE Owned(_)
Owned(v) ==
    \/ v.t \in {"Int", "Str", "Bytes"}
    \/ v.t = "List" /\ \A i \in 1..Len(v.c) : Owned(v.c[i])
    \/ /\ v.t = "Dict"
       /\ \A i \in 1..Len(v.c) :
              KeyOf(v.c[i]).t \in {"Str", "Bytes"} /\ Owned(ValOf(v.c[i]))

\* C34: a Value that load returns is made of Int, Str, Bytes, Dict and List
\* nodes only, holds no DictRef or ListRef into the stacks of the decoder,
\* and has only Str and Bytes as keys of its Dicts.
C34_Owned == (Done /\ result.kind = "Ok") => Owned(result.value)

\* C34 witness: load returned a container whose child, a container with a
\* child of its own, went through a reference on the stacks
C34_Unreferenced ==
    /\ Done /\ result.kind = "Ok"
    /\ result.value.t \in {"Dict", "List"}
    /\ \E i \in 1..Len(result.value.c) :
           LET child == IF result.value.t = "Dict" THEN ValOf(result.value.c[i])
                        ELSE result.value.c[i]
           IN  child.t \in {"Dict", "List"} /\ child.c # <<>>

KeyAccessorDue ==
    /\ trav = "Dict" /\ current.t = "Dict"
    /\ selector # <<>> /\ Head(selector) = Ch.Dot
    /\ ~BadEscape(selector, 2, KeyEnd(selector, 2))

\* C35: the key parsed for a key accessor is the run of characters between
\* its '.' and the next unescaped '.' or '[' or the end of the selector, the
\* empty run included, and what is left to parse starts at that terminator.
C35_KeyRun ==
    KeyAccessorDue =>
        LET p == parse_key_selector(selector, full_selector)
            to == KeyEnd(selector, 2)
        IN  /\ p.st = "ok"
            /\ p.key = KeyText(selector, 2, to)
            /\ p.rest = SubSeq(selector, to + 1, Len(selector))

\* the same, for the accessors without a backslash whose key is not empty
C35_PlainKeys ==
    (KeyAccessorDue /\ EscapeFree /\ KeyEnd(selector, 2) >= 2) =>
        LET p == parse_key_selector(selector, full_selector)
            to == KeyEnd(selector, 2)
        IN  /\ p.st = "ok"
            /\ p.key = KeyText(selector, 2, to)
            /\ p.rest = SubSeq(selector, to + 1, Len(selector))

(***************************************************************************)
(* The end of the session and the changed flag                             *)
(***************************************************************************)
\* C38: interactive never leaves its loop while state.changed is true
\* without having asked whether to save, whichever way it ends, and it
\* writes the file at the exit only after the answer yes.
C38_AskedAtExit ==
    ending.how # "none" =>
        /\ state_changed => answer # "none"
        /\ ending.wrote => answer = "yes"

\* the same, for the end of the input alone
C38_AskedAtEof ==
    ending.how = "eof" =>
        /\ state_changed => answer # "none"
        /\ ending.wrote => answer = "yes"

\* the commands that set state.changed when they succeed
Mutators == {"set", "clear", "remove", "insert", "append"}

\* what parse_args returns for an argument buffer it cannot split, before
\* interactive_cmd looks at the command
ArgErrors == {"ArgUnknownEscape", "ArgTrailingEscape", "ArgEOL"}

====
